---- MODULE Spec2Model ----
(***************************************************************************)
(* Memory categorization (librustc/middle/mem_categorization.rs).          *)
(*                                                                         *)
(* A place (`cmt`) is a chain of nodes: every category owns at most one    *)
(* base, so a place tree is written as the sequence of its nodes from the  *)
(* innermost base (index 1) to the place itself (the last index).  The     *)
(* base of a place p is Base(p), its own node is Top(p).                   *)
(***************************************************************************)
EXTENDS Integers, Sequences, FiniteSets, TLC

VARIABLES
    cmt,       \* the place categorized so far (the Ok value of the last McResult)
    res,       \* "None" before any call, then "Ok", "Err" or "Bug" (a bug!/span_bug! abort)
    op,        \* the operation that produced cmt and res
    eid,       \* the id of the expression node categorized last
    infcx,     \* MemCategorizationContext.infcx
    features,  \* tcx.sess.features.rvalue_static_promotion
    arg,       \* the table entries the root of cmt was categorized from
    out,       \* the answers of the queries asked of cmt
    visits,    \* the calls of the visitor made by cat_pattern, in order
    rootpat    \* the pattern handed to cat_pattern

vars == <<cmt, res, op, eid, infcx, features, arg, out, visits, rootpat>>

(***************************************************************************)
(* Bounds of the model.                                                    *)
(***************************************************************************)
\* longest place chain the expression categorizer builds
MaxDepth == 3
\* longest chain of arbitrary nodes handed to the analysis queries
MaxTreeDepth == 3
\* deepest nesting of sub-patterns in a pattern handed to cat_pattern
MaxPatDepth == 2
\* longest place chain asked for its immutability blame
MaxBlameDepth == 4
\* longest list of adjustments recorded for one expression
MaxAdjustments == 2

(***************************************************************************)
(* Regions (ty::Region): only their identity matters here.                 *)
(***************************************************************************)
NoRegion == [k |-> "-", s |-> 0]
ReStatic == [k |-> "ReStatic", s |-> 0]
ReScope(s) == [k |-> "ReScope", s |-> s]
ReEnv(closure) == [k |-> "ReFree_BrEnv", s |-> closure]
ReNamed(n) == [k |-> "ReEarlyBound", s |-> n]

(***************************************************************************)
(* Types (ty::Ty).  A type is the sequence of its type constructors from   *)
(* the outermost to the innermost: <<Ref, Box, Adt>> is &Box<S>.           *)
(***************************************************************************)
TyC(c) == [c |-> c, m |-> "-", r |-> NoRegion]
TyAdt == <<TyC("TyAdt")>>
TyEnum == <<TyC("TyAdtEnum")>>
TyTuple == <<TyC("TyTuple")>>
TyInt == <<TyC("TyInt")>>
TyError == <<TyC("TyError")>>
TyInfer == <<TyC("TyInfer")>>
TyInferKnown == <<TyC("TyInferKnown")>>
TyGenerator == <<TyC("TyGenerator")>>
TyClosure == <<TyC("TyClosure")>>
TyBox(t) == <<TyC("TyAdtBox")>> \o t
TyRef(r, m, t) == <<[c |-> "TyRef", m |-> m, r |-> r]>> \o t
TyRawPtr(m, t) == <<[c |-> "TyRawPtr", m |-> m, r |-> NoRegion]>> \o t
TyArray(t) == <<TyC("TyArray")>> \o t
TyArray0(t) == <<TyC("TyArray0")>> \o t
TySlice(t) == <<TyC("TySlice")>> \o t

Sty(ty) == ty[1].c

Mutabilities == {"MutImmutable", "MutMutable"}
BorrowKinds == {"ImmBorrow", "UniqueImmBorrow", "MutBorrow"}
MutabilityCategories == {"McImmutable", "McDeclared", "McInherited"}
ClosureKinds == {"Fn", "FnMut", "FnOnce"}


(***************************************************************************)
(* PointerKind, InteriorKind, Note, Upvar.                                 *)
(***************************************************************************)
NoPtr == [k |-> "-", bk |-> "-", r |-> NoRegion, m |-> "-"]
Unique == [k |-> "Unique", bk |-> "-", r |-> NoRegion, m |-> "-"]
BorrowedPtr(bk, r) == [k |-> "BorrowedPtr", bk |-> bk, r |-> r, m |-> "-"]
UnsafePtr(m) == [k |-> "UnsafePtr", bk |-> "-", r |-> NoRegion, m |-> m]
Implicit(bk, r) == [k |-> "Implicit", bk |-> bk, r |-> r, m |-> "-"]

NoInterior == [k |-> "-", f |-> "-", n |-> 0]
NamedField(name) == [k |-> "InteriorField", f |-> "NamedField", n |-> name]
PositionalField(i) == [k |-> "InteriorField", f |-> "PositionalField", n |-> i]
InteriorElement(context) == [k |-> "InteriorElement", f |-> context, n |-> 0]

UpvarId(var_id, closure_expr_id) == [var_id |-> var_id, closure_expr_id |-> closure_expr_id]
NoUpvarId == UpvarId(0, 0)
NoteNone == [k |-> "NoteNone", id |-> NoUpvarId]
NoteClosureEnv(upvar_id) == [k |-> "NoteClosureEnv", id |-> upvar_id]
NoteUpvarRef(upvar_id) == [k |-> "NoteUpvarRef", id |-> upvar_id]

NoUpvar == [id |-> NoUpvarId, kind |-> "-"]
Upvar(upvar_id, kind) == [id |-> upvar_id, kind |-> kind]

(***************************************************************************)
(* cmt_: one node of a place.  `cat` is the Categorization variant; the    *)
(* variant's arguments other than the base are the fields region (Rvalue), *)
(* upvar (Upvar), n (Local: the binding, Downcast: the variant), ptr       *)
(* (Deref) and ik (Interior).                                              *)
(***************************************************************************)
Node(id, cat, mutbl, ty, note) ==
    [id |-> id, cat |-> cat, mutbl |-> mutbl, ty |-> ty, note |-> note,
     region |-> NoRegion, upvar |-> NoUpvar, n |-> 0, ptr |-> NoPtr, ik |-> NoInterior]

Top(p) == p[Len(p)]
Base(p) == SubSeq(p, 1, Len(p) - 1)

BaseCats == {"Rvalue", "StaticItem", "Upvar", "Local"}
WrapCats == {"Deref", "Interior", "Downcast"}

\* McResult<cmt>, with the fatal bug!/span_bug! abort as a third outcome
Ok(p) == [r |-> "Ok", cmt |-> p]
Err == [r |-> "Err", cmt |-> <<>>]
Bug == [r |-> "Bug", cmt |-> <<>>]

(***************************************************************************)
(* MutabilityCategory                                                      *)
(***************************************************************************)
from_mutbl(m) == IF m = "MutImmutable" THEN "McImmutable" ELSE "McDeclared"

from_borrow_kind(borrow_kind) ==
    CASE borrow_kind = "ImmBorrow" -> "McImmutable"
      [] borrow_kind = "UniqueImmBorrow" -> "McImmutable"
      [] borrow_kind = "MutBorrow" -> "McDeclared"

\* a variant of inherit that yields an immutable place whatever the base is
inherit_frozen(self) == "McImmutable"

\* a variant of inherit that hands the mutability of the owner down unchanged
inherit_unchanged(self) == self

inherit(self) ==
    CASE self = "McImmutable" -> "McImmutable"
      [] self = "McDeclared" -> "McInherited"
      [] self = "McInherited" -> "McInherited"

\* a variant of from_pointer_kind in which every pointer kind inherits from
\* the base
from_pointer_kind_inheriting(base_mutbl, ptr) == inherit(base_mutbl)

from_pointer_kind(base_mutbl, ptr) ==
    CASE ptr.k = "Unique" -> inherit(base_mutbl)
      [] ptr.k \in {"BorrowedPtr", "Implicit"} -> from_borrow_kind(ptr.bk)
      [] ptr.k = "UnsafePtr" -> from_mutbl(ptr.m)

\* binding modes recorded in tables.pat_binding_modes
BindingModes == {[by |-> "BindByValue", m |-> "MutMutable"], [by |-> "BindByValue", m |-> "MutImmutable"],
                 [by |-> "BindByReference", m |-> "MutMutable"], [by |-> "BindByReference", m |-> "MutImmutable"]}

\* a variant of from_local for which no local is mutable
from_local_immutable(bm) == "McImmutable"

\* a variant of from_local that follows the `mut` of the binding mode alone
from_local_by_mutbl(bm) == IF bm.m = "MutMutable" THEN "McDeclared" ELSE "McImmutable"

from_local(bm) ==
    IF bm = [by |-> "BindByValue", m |-> "MutMutable"] THEN "McDeclared" ELSE "McImmutable"

is_mutable(self) ==
    CASE self = "McImmutable" -> FALSE
      [] self = "McInherited" -> TRUE
      [] self = "McDeclared" -> TRUE

is_immutable(self) ==
    CASE self = "McImmutable" -> TRUE
      [] self \in {"McDeclared", "McInherited"} -> FALSE

(***************************************************************************)
(* Type queries the categorizer calls (defined in librustc/ty).            *)
(***************************************************************************)
\* Ty::builtin_deref(explicit, _): the pointee of a Box, a reference or,
\* when explicit, a raw pointer
builtin_deref(ty, explicit) ==
    IF Sty(ty) \in {"TyAdtBox", "TyRef"} \/ (Sty(ty) = "TyRawPtr" /\ explicit)
    THEN <<TRUE, Tail(ty)>> ELSE <<FALSE, ty>>

\* Ty::builtin_index(): the element type of an array or a slice
builtin_index(ty) ==
    IF Sty(ty) \in {"TyArray", "TyArray0", "TySlice"} THEN <<TRUE, Tail(ty)>> ELSE <<FALSE, ty>>

\* ty::BorrowKind::from_mutbl
bk_from_mutbl(m) == IF m = "MutImmutable" THEN "ImmBorrow" ELSE "MutBorrow"

\* Ty::references_error() || Ty::is_ty_var()
references_error(ty) == \E i \in 1..Len(ty) : ty[i].c = "TyError"
is_ty_var(ty) == Sty(ty) \in {"TyInfer", "TyInferKnown"}

(***************************************************************************)
(* The place-construction primitives.                                      *)
(***************************************************************************)
\* a variant of cat_rvalue whose temporaries are immutable
cat_rvalue_immutable(cmt_id, temp_scope, expr_ty) ==
    <<[Node(cmt_id, "Rvalue", "McImmutable", expr_ty, NoteNone) EXCEPT !.region = temp_scope]>>

cat_rvalue(cmt_id, temp_scope, expr_ty) ==
    <<[Node(cmt_id, "Rvalue", "McDeclared", expr_ty, NoteNone) EXCEPT !.region = temp_scope]>>

cat_field(id, base_cmt, f_name, f_ty) ==
    Append(base_cmt, [Node(id, "Interior", inherit(Top(base_cmt).mutbl), f_ty, NoteNone)
                        EXCEPT !.ik = NamedField(f_name)])

cat_tup_field(id, base_cmt, f_idx, f_ty) ==
    Append(base_cmt, [Node(id, "Interior", inherit(Top(base_cmt).mutbl), f_ty, NoteNone)
                        EXCEPT !.ik = PositionalField(f_idx)])

cat_imm_interior(id, base_cmt, interior_ty, interior) ==
    Append(base_cmt, [Node(id, "Interior", inherit(Top(base_cmt).mutbl), interior_ty, NoteNone)
                        EXCEPT !.ik = interior])

\* a variant of cat_index that gives the element the type of the base
cat_index_base_ty(id, base_cmt, element_ty, context) ==
    Ok(cat_imm_interior(id, base_cmt, Top(base_cmt).ty, InteriorElement(context)))

cat_index(id, base_cmt, element_ty, context) ==
    Ok(cat_imm_interior(id, base_cmt, element_ty, InteriorElement(context)))

\* the pointer kind cat_deref derives from the base's type ("Bug": the
\* `unexpected type in cat_deref` arm)
deref_ptr(base_ty, implicit) ==
    CASE Sty(base_ty) = "TyAdtBox" -> Unique
      [] Sty(base_ty) = "TyRawPtr" -> UnsafePtr(base_ty[1].m)
      [] Sty(base_ty) = "TyRef" ->
            IF implicit THEN Implicit(bk_from_mutbl(base_ty[1].m), base_ty[1].r)
            ELSE BorrowedPtr(bk_from_mutbl(base_ty[1].m), base_ty[1].r)
      [] OTHER -> NoPtr

\* a variant of cat_deref for which a type that cannot be dereferenced is
\* an internal error
cat_deref_fatal(id, base_cmt, implicit) ==
    LET base_cmt_ty == Top(base_cmt).ty
        d == builtin_deref(base_cmt_ty, TRUE)
        ptr == deref_ptr(base_cmt_ty, implicit)
    IN  IF ~d[1] \/ ptr = NoPtr THEN Bug
        ELSE Ok(Append(base_cmt,
                  [Node(id, "Deref", from_pointer_kind(Top(base_cmt).mutbl, ptr), d[2], NoteNone)
                     EXCEPT !.ptr = ptr]))

cat_deref(id, base_cmt, implicit) ==
    LET base_cmt_ty == Top(base_cmt).ty
        d == builtin_deref(base_cmt_ty, TRUE)
        ptr == deref_ptr(base_cmt_ty, implicit)
    IN  IF ~d[1] THEN Err
        ELSE IF ptr = NoPtr THEN Bug
        ELSE Ok(Append(base_cmt,
                  [Node(id, "Deref", from_pointer_kind(Top(base_cmt).mutbl, ptr), d[2], NoteNone)
                     EXCEPT !.ptr = ptr]))

(***************************************************************************)
(* The ADT definitions of the program under analysis: variant ids and the  *)
(* enum each belongs to.  Enum 1 has the two variants 11 and 12; type 2    *)
(* has the single variant 21; the struct 3 and Box (4) have the single      *)
(* variants 30 and 40.                                                     *)
(***************************************************************************)
VariantDids == {11, 12, 21, 30, 40}
parent_def_id(variant_did) == variant_did \div 10
adt_variants(adt_did) == {v \in VariantDids : parent_def_id(v) = adt_did}
is_univariant(adt_did) == Cardinality(adt_variants(adt_did)) = 1

\* a variant of cat_downcast_if_needed that downcasts univariant types too
cat_downcast_always(id, base_cmt, variant_did) ==
    Append(base_cmt,
           [Node(id, "Downcast", inherit(Top(base_cmt).mutbl), Top(base_cmt).ty, NoteNone)
              EXCEPT !.n = variant_did])

cat_downcast_if_needed(id, base_cmt, variant_did) ==
    LET base_did == parent_def_id(variant_did)
    IN  IF ~is_univariant(base_did)
        THEN Append(base_cmt,
               [Node(id, "Downcast", inherit(Top(base_cmt).mutbl), Top(base_cmt).ty, NoteNone)
                  EXCEPT !.n = variant_did])
        ELSE base_cmt


(***************************************************************************)
(* MemCategorizationContext: type lookups.  `icx` is the inference         *)
(* context: "None" (MemCategorizationContext::new), "Clean" or "Tainted"   *)
(* (with_infer).  An absent table entry is the empty sequence TyNone.      *)
(* TyInferKnown is a type variable the inference context has unified with  *)
(* an integer; TyInfer is one it cannot resolve.                           *)
(***************************************************************************)
TyNone == <<>>
InferCtxts == {"None", "Clean", "Tainted"}

TyOk(ty) == [r |-> "Ok", ty |-> ty]
TyErr == [r |-> "Err", ty |-> TyNone]
TyBug == [r |-> "Bug", ty |-> TyNone]

resolve_type_vars_if_possible(icx, value) ==
    IF icx = "None" THEN value
    ELSE [i \in 1..Len(value) |-> IF value[i].c = "TyInferKnown" THEN TyC("TyInt") ELSE value[i]]

is_tainted_by_errors(icx) == icx = "Tainted"

\* a variant of resolve_type_vars_or_error that treats an unresolved
\* inference variable like a missing entry
resolve_type_vars_or_error_strict(icx, ty) ==
    LET t == resolve_type_vars_if_possible(icx, ty)
    IN  IF ty # TyNone /\ references_error(t) THEN TyErr
        ELSE IF ty # TyNone /\ ~is_ty_var(t) THEN TyOk(t)
        ELSE IF is_tainted_by_errors(icx) THEN TyErr
        ELSE TyBug

resolve_type_vars_or_error(icx, ty) ==
    IF ty # TyNone
    THEN LET t == resolve_type_vars_if_possible(icx, ty)
         IN  IF references_error(t) \/ is_ty_var(t) THEN TyErr ELSE TyOk(t)
    ELSE IF is_tainted_by_errors(icx) THEN TyErr
    ELSE TyBug

node_ty(icx, ty) == resolve_type_vars_or_error(icx, ty)
expr_ty(icx, ty) == resolve_type_vars_or_error(icx, ty)
expr_ty_adjusted(icx, ty) == resolve_type_vars_or_error(icx, ty)

(***************************************************************************)
(* Rvalues and their temporary scope.                                      *)
(*   scope      : region_maps.temporary_scope(id), 0 for None              *)
(*   promotable : the entry of tcx.rvalue_promotable_to_static for id,     *)
(*                "None" when the table has none                           *)
(*   feature    : sess.features.rvalue_static_promotion                    *)
(***************************************************************************)
\* a variant of temporary_scope that answers with the scope recorded for
\* the node even when the scope map records none
temporary_scope_unchecked(scope) == ReScope(scope)

temporary_scope(scope) == IF scope # 0 THEN ReScope(scope) ELSE ReStatic

\* a variant of cat_rvalue_node that promotes whatever the table marks,
\* without asking for the feature
cat_rvalue_node_unguarded(id, expr_type, promotable, feature, scope) ==
    LET promotable0 == IF promotable = "None" THEN FALSE ELSE promotable = "true"
        promotable1 == IF Sty(expr_type) = "TyArray0" THEN TRUE ELSE promotable0
        re == IF promotable1 THEN ReStatic ELSE temporary_scope(scope)
    IN  cat_rvalue(id, re, expr_type)

cat_rvalue_node(id, expr_type, promotable, feature, scope) ==
    LET promotable0 == IF promotable = "None" THEN FALSE ELSE promotable = "true"
        promotable1 == IF Sty(expr_type) = "TyArray0" THEN TRUE ELSE promotable0 /\ feature
        re == IF promotable1 THEN ReStatic ELSE temporary_scope(scope)
    IN  cat_rvalue(id, re, expr_type)

(***************************************************************************)
(* Upvars.  `t` holds what the tables record for the closure and the       *)
(* captured variable:                                                      *)
(*   closure_kind : tables.closure_kinds.get(fn_node_id), "None" if absent *)
(*   fn_ty        : the type recorded for the closure node                 *)
(*   var_ty       : the type recorded for the variable                     *)
(*   bm           : the variable's binding mode                            *)
(*   capture      : tables.upvar_capture(upvar_id)                         *)
(***************************************************************************)
ByValue == [by |-> "ByValue", kind |-> "-", region |-> NoRegion]
ByRef(kind, region) == [by |-> "ByRef", kind |-> kind, region |-> region]

\* a variant of env_deref that takes the mutability of the environment deref
\* from the borrow kind alone
env_deref_unforced(id, upvar_id, upvar_mutbl, env_borrow_kind, cmt_result) ==
    Append(<<[Top(cmt_result) EXCEPT !.mutbl = "McImmutable", !.ty = TyError]>>,
           [Node(id, "Deref", from_borrow_kind(env_borrow_kind), Top(cmt_result).ty,
                 NoteClosureEnv(upvar_id))
              EXCEPT !.ptr = BorrowedPtr(env_borrow_kind, ReEnv(upvar_id.closure_expr_id))])

\* a variant of env_deref that leaves the Upvar node as cat_upvar built it
env_deref_keeping_upvar(id, upvar_id, upvar_mutbl, env_borrow_kind, cmt_result) ==
    Append(cmt_result,
           [Node(id, "Deref",
                 IF upvar_mutbl = "McImmutable" THEN "McImmutable"
                 ELSE from_borrow_kind(env_borrow_kind),
                 Top(cmt_result).ty, NoteClosureEnv(upvar_id))
              EXCEPT !.ptr = BorrowedPtr(env_borrow_kind, ReEnv(upvar_id.closure_expr_id))])

env_deref(id, upvar_id, upvar_mutbl, env_borrow_kind, cmt_result) ==
    LET env_region == ReEnv(upvar_id.closure_expr_id)
        env_ptr == BorrowedPtr(env_borrow_kind, env_region)
        var_ty == Top(cmt_result).ty
        cmt_result1 == <<[Top(cmt_result) EXCEPT !.mutbl = "McImmutable", !.ty = TyError]>>
        deref_mutbl == IF upvar_mutbl = "McImmutable" THEN "McImmutable"
                       ELSE from_borrow_kind(env_borrow_kind)
    IN  Append(cmt_result1,
               [Node(id, "Deref", deref_mutbl, var_ty, NoteClosureEnv(upvar_id))
                  EXCEPT !.ptr = env_ptr])

\* the closure kind cat_upvar works with: "Err"/"Bug" when it has none
\* a variant of upvar_closure_kind that fails softly for a closure without
\* a recorded kind
upvar_closure_kind_soft(icx, t) ==
    IF t.closure_kind # "None" THEN t.closure_kind
    ELSE LET ty == node_ty(icx, t.fn_ty)
         IN  IF ty.r # "Ok" THEN ty.r
             ELSE IF Sty(ty.ty) = "TyGenerator" THEN "FnOnce"
             ELSE "Err"

upvar_closure_kind(icx, t) ==
    IF t.closure_kind # "None" THEN t.closure_kind
    ELSE LET ty == node_ty(icx, t.fn_ty)
         IN  IF ty.r # "Ok" THEN ty.r
             ELSE IF Sty(ty.ty) = "TyGenerator" THEN "FnOnce"
             ELSE "Bug"

\* a variant of cat_upvar that borrows the environment of an Fn closure
\* mutably and that of an FnMut closure immutably
cat_upvar_swapped_env(icx, id, var_id, fn_node_id, t) ==
    LET kind == upvar_closure_kind(icx, t)
        upvar_id == UpvarId(var_id, fn_node_id)
        var_ty == node_ty(icx, t.var_ty)
        var_mutbl == from_local(t.bm)
        cmt_result0 == <<[Node(id, "Upvar", var_mutbl, var_ty.ty, NoteNone)
                            EXCEPT !.upvar = Upvar(upvar_id, kind)]>>
        cmt_result1 ==
            CASE kind = "FnOnce" -> cmt_result0
              [] kind = "FnMut" -> env_deref(id, upvar_id, var_mutbl, "ImmBorrow", cmt_result0)
              [] kind = "Fn" -> env_deref(id, upvar_id, var_mutbl, "MutBorrow", cmt_result0)
        cmt_result2 ==
            IF t.capture.by = "ByValue" THEN cmt_result1
            ELSE Append(cmt_result1,
                   [Node(id, "Deref", from_borrow_kind(t.capture.kind), var_ty.ty,
                         NoteUpvarRef(upvar_id))
                      EXCEPT !.ptr = BorrowedPtr(t.capture.kind, t.capture.region)])
    IN  IF kind \in {"Err", "Bug"} THEN [r |-> kind, cmt |-> <<>>]
        ELSE IF var_ty.r # "Ok" THEN [r |-> var_ty.r, cmt |-> <<>>]
        ELSE Ok(cmt_result2)

cat_upvar(icx, id, var_id, fn_node_id, t) ==
    LET kind == upvar_closure_kind(icx, t)
        upvar_id == UpvarId(var_id, fn_node_id)
        var_ty == node_ty(icx, t.var_ty)
        var_mutbl == from_local(t.bm)
        cmt_result0 == <<[Node(id, "Upvar", var_mutbl, var_ty.ty, NoteNone)
                            EXCEPT !.upvar = Upvar(upvar_id, kind)]>>
        cmt_result1 ==
            CASE kind = "FnOnce" -> cmt_result0
              [] kind = "FnMut" -> env_deref(id, upvar_id, var_mutbl, "MutBorrow", cmt_result0)
              [] kind = "Fn" -> env_deref(id, upvar_id, var_mutbl, "ImmBorrow", cmt_result0)
        cmt_result2 ==
            IF t.capture.by = "ByValue" THEN cmt_result1
            ELSE Append(cmt_result1,
                   [Node(id, "Deref", from_borrow_kind(t.capture.kind), var_ty.ty,
                         NoteUpvarRef(upvar_id))
                      EXCEPT !.ptr = BorrowedPtr(t.capture.kind, t.capture.region)])
    IN  IF kind \in {"Err", "Bug"} THEN [r |-> kind, cmt |-> <<>>]
        ELSE IF var_ty.r # "Ok" THEN [r |-> var_ty.r, cmt |-> <<>>]
        ELSE Ok(cmt_result2)


(***************************************************************************)
(* Expressions.  `e` holds what the tables record for the expression node  *)
(* being categorized:                                                      *)
(*   ty               : tables.expr_ty_opt(expr)                           *)
(*   method_call      : tables.is_method_call(expr)                        *)
(*   base_ty_adjusted : tables.expr_ty_adjusted_opt(base), the receiver of *)
(*                      an overloaded operator                             *)
(*   promotable, scope: see cat_rvalue_node                                *)
(* `prev` is the McResult of cat_expr on the sub-expression; it is only    *)
(* looked at where the code evaluates it.                                  *)
(***************************************************************************)
\* a variant of cat_overloaded_lvalue that fails softly for a receiver
\* whose adjusted type is not a reference
cat_overloaded_lvalue_soft(icx, feature, id, e, implicit) ==
    LET lvalue_ty == expr_ty(icx, e.ty)
        base_ty == expr_ty_adjusted(icx, e.base_ty_adjusted)
    IN  IF lvalue_ty.r # "Ok" THEN [r |-> lvalue_ty.r, cmt |-> <<>>]
        ELSE IF base_ty.r # "Ok" THEN [r |-> base_ty.r, cmt |-> <<>>]
        ELSE IF Sty(base_ty.ty) # "TyRef" THEN Err
        ELSE LET ref_ty == TyRef(base_ty.ty[1].r, base_ty.ty[1].m, lvalue_ty.ty)
                 base_cmt == cat_rvalue_node(id, ref_ty, e.promotable, feature, e.scope)
             IN  cat_deref(id, base_cmt, implicit)

cat_overloaded_lvalue(icx, feature, id, e, implicit) ==
    LET lvalue_ty == expr_ty(icx, e.ty)
        base_ty == expr_ty_adjusted(icx, e.base_ty_adjusted)
    IN  IF lvalue_ty.r # "Ok" THEN [r |-> lvalue_ty.r, cmt |-> <<>>]
        ELSE IF base_ty.r # "Ok" THEN [r |-> base_ty.r, cmt |-> <<>>]
        ELSE IF Sty(base_ty.ty) # "TyRef" THEN Bug
        ELSE LET ref_ty == TyRef(base_ty.ty[1].r, base_ty.ty[1].m, lvalue_ty.ty)
                 base_cmt == cat_rvalue_node(id, ref_ty, e.promotable, feature, e.scope)
             IN  cat_deref(id, base_cmt, implicit)

\* hir::ExprUnary(hir::UnDeref, e_base)
cat_expr_ExprUnaryDeref(icx, feature, id, e, prev) ==
    LET ety == expr_ty(icx, e.ty)
    IN  IF ety.r # "Ok" THEN [r |-> ety.r, cmt |-> <<>>]
        ELSE IF e.method_call THEN cat_overloaded_lvalue(icx, feature, id, e, FALSE)
        ELSE IF prev.r # "Ok" THEN prev
        ELSE cat_deref(id, prev.cmt, FALSE)

\* hir::ExprField(base, f_name)
cat_expr_ExprField(icx, id, e, f_name, prev) ==
    LET ety == expr_ty(icx, e.ty)
    IN  IF ety.r # "Ok" THEN [r |-> ety.r, cmt |-> <<>>]
        ELSE IF prev.r # "Ok" THEN prev
        ELSE Ok(cat_field(id, prev.cmt, f_name, ety.ty))

\* hir::ExprTupField(base, idx)
cat_expr_ExprTupField(icx, id, e, idx, prev) ==
    LET ety == expr_ty(icx, e.ty)
    IN  IF ety.r # "Ok" THEN [r |-> ety.r, cmt |-> <<>>]
        ELSE IF prev.r # "Ok" THEN prev
        ELSE Ok(cat_tup_field(id, prev.cmt, idx, ety.ty))

\* hir::ExprIndex(base, _)
cat_expr_ExprIndex(icx, feature, id, e, prev) ==
    LET ety == expr_ty(icx, e.ty)
    IN  IF ety.r # "Ok" THEN [r |-> ety.r, cmt |-> <<>>]
        ELSE IF e.method_call THEN cat_overloaded_lvalue(icx, feature, id, e, TRUE)
        ELSE IF prev.r # "Ok" THEN prev
        ELSE cat_index(id, prev.cmt, ety.ty, "Index")

\* hir::ExprType(e, _)
cat_expr_ExprType(icx, e, prev) ==
    LET ety == expr_ty(icx, e.ty)
    IN  IF ety.r # "Ok" THEN [r |-> ety.r, cmt |-> <<>>]
        ELSE prev

\* every expression form of the last arm: calls, literals, casts, ...
cat_expr_rvalue(icx, feature, id, e) ==
    LET ety == expr_ty(icx, e.ty)
    IN  IF ety.r # "Ok" THEN [r |-> ety.r, cmt |-> <<>>]
        ELSE Ok(cat_rvalue_node(id, ety.ty, e.promotable, feature, e.scope))

(***************************************************************************)
(* Definitions a path resolves to (hir::def::Def).  `mutbl` is the flag of *)
(* Def::Static; var_id and fn_node_id belong to Def::Local and Def::Upvar. *)
(***************************************************************************)
RvalueDefs == {"StructCtor", "VariantCtor", "Const", "AssociatedConst", "Fn", "Method"}

Def(k, mutbl, var_id, fn_node_id) ==
    [k |-> k, mutbl |-> mutbl, var_id |-> var_id, fn_node_id |-> fn_node_id]

cat_def(icx, feature, id, expr_type, def, e, t) ==
    CASE def.k \in RvalueDefs ->
            Ok(cat_rvalue_node(id, expr_type, e.promotable, feature, e.scope))
      [] def.k = "Static" ->
            Ok(<<Node(id, "StaticItem", IF def.mutbl THEN "McDeclared" ELSE "McImmutable",
                      expr_type, NoteNone)>>)
      [] def.k = "Upvar" -> cat_upvar(icx, id, def.var_id, def.fn_node_id, t)
      [] def.k = "Local" ->
            Ok(<<[Node(id, "Local", from_local(t.bm), expr_type, NoteNone)
                    EXCEPT !.n = def.var_id]>>)
      [] OTHER -> Bug

\* hir::ExprPath(qpath)
cat_expr_ExprPath(icx, feature, id, e, def, t) ==
    LET ety == expr_ty(icx, e.ty)
    IN  IF ety.r # "Ok" THEN [r |-> ety.r, cmt |-> <<>>]
        ELSE cat_def(icx, feature, id, ety.ty, def, e, t)

(***************************************************************************)
(* Adjustments (ty::adjustment::Adjustment): kind, target and, for an      *)
(* overloaded deref, the region and mutability of the Deref impl's         *)
(* receiver.                                                               *)
(***************************************************************************)
NonDerefAdjusts == {"NeverToAny", "ReifyFnPointer", "UnsafeFnPointer", "ClosureFnPointer",
                    "MutToConstPointer", "Borrow", "Unsize"}

Adjustment(kind, target, region, mutbl) ==
    [kind |-> kind, target |-> target, region |-> region, mutbl |-> mutbl]

\* a variant of cat_expr_adjusted_with whose built-in deref step recovers
\* from a failure below it with an rvalue of the target type
cat_expr_adjusted_with_recovering(icx, feature, id, e, previous, adjustment) ==
    LET target == resolve_type_vars_if_possible(icx, adjustment.target)
    IN  CASE adjustment.kind = "Deref" ->
                IF previous.r # "Ok"
                THEN Ok(cat_rvalue_node(id, target, e.promotable, feature, e.scope))
                ELSE cat_deref(id, previous.cmt, FALSE)
          [] adjustment.kind = "OverloadedDeref" ->
                LET ref_ty == TyRef(adjustment.region, adjustment.mutbl, target)
                IN  cat_deref(id, cat_rvalue_node(id, ref_ty, e.promotable, feature, e.scope), FALSE)
          [] adjustment.kind \in NonDerefAdjusts ->
                Ok(cat_rvalue_node(id, target, e.promotable, feature, e.scope))

\* a variant of cat_expr_adjusted_with whose coercion steps retype the place
\* built so far instead of making an rvalue
cat_expr_adjusted_with_retyping(icx, feature, id, e, previous, adjustment) ==
    LET target == resolve_type_vars_if_possible(icx, adjustment.target)
    IN  CASE adjustment.kind = "Deref" ->
                IF previous.r # "Ok" THEN previous ELSE cat_deref(id, previous.cmt, FALSE)
          [] adjustment.kind = "OverloadedDeref" ->
                LET ref_ty == TyRef(adjustment.region, adjustment.mutbl, target)
                IN  cat_deref(id, cat_rvalue_node(id, ref_ty, e.promotable, feature, e.scope), FALSE)
          [] adjustment.kind \in NonDerefAdjusts ->
                IF previous.r # "Ok"
                THEN Ok(cat_rvalue_node(id, target, e.promotable, feature, e.scope))
                ELSE Ok([previous.cmt EXCEPT ![Len(previous.cmt)].ty = target])

cat_expr_adjusted_with(icx, feature, id, e, previous, adjustment) ==
    LET target == resolve_type_vars_if_possible(icx, adjustment.target)
    IN  CASE adjustment.kind = "Deref" ->
                IF previous.r # "Ok" THEN previous ELSE cat_deref(id, previous.cmt, FALSE)
          [] adjustment.kind = "OverloadedDeref" ->
                LET ref_ty == TyRef(adjustment.region, adjustment.mutbl, target)
                IN  cat_deref(id, cat_rvalue_node(id, ref_ty, e.promotable, feature, e.scope), FALSE)
          [] adjustment.kind \in NonDerefAdjusts ->
                Ok(cat_rvalue_node(id, target, e.promotable, feature, e.scope))

(***************************************************************************)
(* An expression: its form (`kind`), its entries in the tables (`e`), the  *)
(* field it names, the definition its path resolves to and the tables of   *)
(* that definition.  `prev` stands for the McResult of cat_expr on the     *)
(* sub-expression; an operator uses it exactly where the code calls        *)
(* cat_expr on the sub-expression.                                         *)
(***************************************************************************)
Expr(kind, e, def, t) ==
    [kind |-> kind, e |-> e, f_name |-> 1, idx |-> 0, def |-> def, t |-> t]

cat_expr_unadjusted(icx, feature, id, expr, prev) ==
    CASE expr.kind = "ExprUnaryDeref" -> cat_expr_ExprUnaryDeref(icx, feature, id, expr.e, prev)
      [] expr.kind = "ExprField" -> cat_expr_ExprField(icx, id, expr.e, expr.f_name, prev)
      [] expr.kind = "ExprTupField" -> cat_expr_ExprTupField(icx, id, expr.e, expr.idx, prev)
      [] expr.kind = "ExprIndex" -> cat_expr_ExprIndex(icx, feature, id, expr.e, prev)
      [] expr.kind = "ExprPath" -> cat_expr_ExprPath(icx, feature, id, expr.e, expr.def, expr.t)
      [] expr.kind = "ExprType" -> cat_expr_ExprType(icx, expr.e, prev)
      [] OTHER -> cat_expr_rvalue(icx, feature, id, expr.e)

\* cat_expr::helper: the last adjustment is applied to the lazily
\* categorized expression under the adjustments before it
RECURSIVE helper(_, _, _, _, _, _)
helper(icx, feature, id, expr, prev, adjustments) ==
    IF adjustments = <<>> THEN cat_expr_unadjusted(icx, feature, id, expr, prev)
    ELSE cat_expr_adjusted_with(icx, feature, id, expr.e,
                                helper(icx, feature, id, expr, prev,
                                       SubSeq(adjustments, 1, Len(adjustments) - 1)),
                                adjustments[Len(adjustments)])

cat_expr(icx, feature, id, expr, prev, adjustments) ==
    helper(icx, feature, id, expr, prev, adjustments)


(***************************************************************************)
(* The queries on a finished place.                                        *)
(***************************************************************************)
\* a variant of guarantor that steps to the base once instead of recursing
guarantor_one_step(self) ==
    IF Top(self).cat \in {"Interior", "Downcast"}
       \/ (Top(self).cat = "Deref" /\ Top(self).ptr.k = "Unique")
    THEN Base(self) ELSE self

RECURSIVE guarantor(_)
guarantor(self) ==
    LET c == Top(self)
    IN  IF c.cat \in {"Rvalue", "StaticItem", "Local", "Upvar"}
           \/ (c.cat = "Deref" /\ c.ptr.k \in {"UnsafePtr", "BorrowedPtr", "Implicit"})
        THEN self
        ELSE guarantor(Base(self))

FreelyAliasable(reason) == [k |-> "FreelyAliasable", reason |-> reason]
NonAliasable == [k |-> "NonAliasable", reason |-> "-"]
ImmutableUnique == [k |-> "ImmutableUnique", reason |-> "-"]

\* a variant of freely_aliasable that does not look through Interior,
\* Downcast and unique or mutable derefs
freely_aliasable_shallow(self) ==
    CASE Top(self).cat = "StaticItem" ->
            IF is_mutable(Top(self).mutbl) THEN FreelyAliasable("AliasableStaticMut")
            ELSE FreelyAliasable("AliasableStatic")
      [] Top(self).cat = "Deref" /\ Top(self).ptr.k \in {"BorrowedPtr", "Implicit"}
         /\ Top(self).ptr.bk = "ImmBorrow" ->
            FreelyAliasable("AliasableBorrowed")
      [] OTHER -> NonAliasable

\* a variant of freely_aliasable for which a static is never a `static mut`
freely_aliasable_static(self) ==
    CASE Top(self).cat = "StaticItem" -> FreelyAliasable("AliasableStatic")
      [] Top(self).cat = "Deref" /\ Top(self).ptr.k \in {"BorrowedPtr", "Implicit"}
         /\ Top(self).ptr.bk = "ImmBorrow" ->
            FreelyAliasable("AliasableBorrowed")
      [] OTHER -> NonAliasable

\* a variant of freely_aliasable that reports a dereference of a unique
\* immutable borrow as ImmutableUnique
RECURSIVE freely_aliasable_unique(_)
freely_aliasable_unique(self) ==
    LET c == Top(self)
    IN  CASE c.cat = "Deref" /\ c.ptr.k \in {"BorrowedPtr", "Implicit"}
             /\ c.ptr.bk = "UniqueImmBorrow" ->
                ImmutableUnique
          [] (c.cat = "Deref" /\ c.ptr.k \in {"BorrowedPtr", "Implicit"}
                /\ c.ptr.bk = "MutBorrow")
             \/ (c.cat = "Deref" /\ c.ptr.k = "Unique")
             \/ c.cat \in {"Downcast", "Interior"} ->
                freely_aliasable_unique(Base(self))
          [] c.cat \in {"Rvalue", "Local", "Upvar"}
             \/ (c.cat = "Deref" /\ c.ptr.k = "UnsafePtr") ->
                NonAliasable
          [] c.cat = "StaticItem" ->
                IF is_mutable(c.mutbl) THEN FreelyAliasable("AliasableStaticMut")
                ELSE FreelyAliasable("AliasableStatic")
          [] c.cat = "Deref" /\ c.ptr.k \in {"BorrowedPtr", "Implicit"}
             /\ c.ptr.bk = "ImmBorrow" ->
                FreelyAliasable("AliasableBorrowed")

RECURSIVE freely_aliasable(_)
freely_aliasable(self) ==
    LET c == Top(self)
    IN  CASE (c.cat = "Deref" /\ c.ptr.k \in {"BorrowedPtr", "Implicit"}
                /\ c.ptr.bk \in {"MutBorrow", "UniqueImmBorrow"})
             \/ (c.cat = "Deref" /\ c.ptr.k = "Unique")
             \/ c.cat \in {"Downcast", "Interior"} ->
                freely_aliasable(Base(self))
          [] c.cat \in {"Rvalue", "Local", "Upvar"}
             \/ (c.cat = "Deref" /\ c.ptr.k = "UnsafePtr") ->
                NonAliasable
          [] c.cat = "StaticItem" ->
                IF is_mutable(c.mutbl) THEN FreelyAliasable("AliasableStaticMut")
                ELSE FreelyAliasable("AliasableStatic")
          [] c.cat = "Deref" /\ c.ptr.k \in {"BorrowedPtr", "Implicit"}
             /\ c.ptr.bk = "ImmBorrow" ->
                FreelyAliasable("AliasableBorrowed")

\* Option<cmt>, with the bug!() arms as a third outcome
Some(p) == [r |-> "Some", cmt |-> p]
None == [r |-> "None", cmt |-> <<>>]
UpvarBug == [r |-> "Bug", cmt |-> <<>>]

\* a variant of upvar that digs through one layer of deref only
upvar_one_layer(self) ==
    IF Top(self).note.k \in {"NoteClosureEnv", "NoteUpvarRef"}
    THEN IF Top(self).cat = "Deref" THEN Some(Base(self)) ELSE UpvarBug
    ELSE None

\* a variant of upvar that expects the captured variable directly under the
\* noted dereference
upvar_direct(self) ==
    IF Top(self).note.k \in {"NoteClosureEnv", "NoteUpvarRef"}
    THEN IF Top(self).cat = "Deref" /\ Top(Base(self)).cat = "Upvar"
         THEN Some(Base(self))
         ELSE UpvarBug
    ELSE None

upvar(self) ==
    IF Top(self).note.k \in {"NoteClosureEnv", "NoteUpvarRef"}
    THEN IF Top(self).cat = "Deref"
         THEN LET inner == Base(self)
              IN  CASE Top(inner).cat = "Deref" -> Some(Base(inner))
                    [] Top(inner).cat = "Upvar" -> Some(inner)
                    [] OTHER -> UpvarBug
         ELSE UpvarBug
    ELSE None

(***************************************************************************)
(* ImmutabilityBlame, with None for no blame and "Bug" for the bug! and    *)
(* the failed assert! of resolve_field.  A field definition is named by    *)
(* its ADT, its variant and the field name or position.                    *)
(***************************************************************************)
NoBlame == [k |-> "None", id |-> 0, adt |-> 0, variant |-> 0, field |-> NoInterior]
BlameBug == [NoBlame EXCEPT !.k = "Bug"]
ImmLocal(id) == [NoBlame EXCEPT !.k = "ImmLocal", !.id = id]
ClosureEnv(id) == [NoBlame EXCEPT !.k = "ClosureEnv", !.id = id]
LocalDeref(id) == [NoBlame EXCEPT !.k = "LocalDeref", !.id = id]
AdtFieldDeref(adt_def, variant, field_name) ==
    [NoBlame EXCEPT !.k = "AdtFieldDeref", !.adt = adt_def, !.variant = variant,
                    !.field = field_name]

\* the definition of an ADT type: the enum 1, the struct 3, Box
adt_def_of(ty) ==
    CASE Sty(ty) = "TyAdtEnum" -> 1
      [] Sty(ty) = "TyAdt" -> 3
      [] Sty(ty) = "TyAdtBox" -> 4

\* resolve_field of the place self, with the blame built from its result
\* a variant of resolve_field that looks the field up in the first variant
\* of the ADT whatever the place was downcast to
resolve_field_first_variant(self, field_name) ==
    LET sty == Sty(Top(self).ty)
    IN  IF sty = "TyTuple" THEN NoBlame
        ELSE IF sty \notin {"TyAdt", "TyAdtEnum", "TyAdtBox"} THEN BlameBug
        ELSE LET adt_def == adt_def_of(Top(self).ty)
                 first == CHOOSE v \in adt_variants(adt_def) :
                             \A w \in adt_variants(adt_def) : v <= w
             IN  AdtFieldDeref(adt_def, first, field_name)

resolve_field(self, field_name) ==
    LET sty == Sty(Top(self).ty)
    IN  IF sty = "TyTuple" THEN NoBlame
        ELSE IF sty \notin {"TyAdt", "TyAdtEnum", "TyAdtBox"} THEN BlameBug
        ELSE LET adt_def == adt_def_of(Top(self).ty)
             IN  IF Top(self).cat = "Downcast"
                 THEN AdtFieldDeref(adt_def, Top(self).n, field_name)
                 ELSE IF ~is_univariant(adt_def) THEN BlameBug
                 ELSE AdtFieldDeref(adt_def, CHOOSE v \in adt_variants(adt_def) : TRUE,
                                    field_name)

\* a variant of immutability_blame that goes on through a dereference of an
\* immutable borrow whose base it has no blame for
RECURSIVE immutability_blame_through(_)
immutability_blame_through(self) ==
    LET c == Top(self)
    IN  CASE c.cat = "Deref" /\ c.ptr.k \in {"BorrowedPtr", "Implicit"}
                /\ c.ptr.bk = "ImmBorrow" ->
                LET base_cmt == Base(self)
                    b == Top(base_cmt)
                IN  CASE b.cat = "Local" -> LocalDeref(b.n)
                      [] b.cat = "Interior" /\ b.ik.k = "InteriorField" ->
                            resolve_field(Base(base_cmt), b.ik)
                      [] b.cat = "Upvar" ->
                            IF c.note.k = "NoteClosureEnv"
                            THEN ClosureEnv(b.upvar.id.closure_expr_id)
                            ELSE NoBlame
                      [] OTHER -> immutability_blame_through(base_cmt)
          [] c.cat = "Local" -> ImmLocal(c.n)
          [] c.cat \in {"Rvalue", "Upvar"} \/ (c.cat = "Deref" /\ c.ptr.k = "UnsafePtr") ->
                NoBlame
          [] c.cat \in {"Interior", "Downcast", "Deref"} ->
                immutability_blame_through(Base(self))
          [] c.cat = "StaticItem" -> NoBlame

RECURSIVE immutability_blame(_)
immutability_blame(self) ==
    LET c == Top(self)
    IN  CASE c.cat = "Deref" /\ c.ptr.k \in {"BorrowedPtr", "Implicit"}
                /\ c.ptr.bk = "ImmBorrow" ->
                LET base_cmt == Base(self)
                    b == Top(base_cmt)
                IN  CASE b.cat = "Local" -> LocalDeref(b.n)
                      [] b.cat = "Interior" /\ b.ik.k = "InteriorField" ->
                            resolve_field(Base(base_cmt), b.ik)
                      [] b.cat = "Upvar" ->
                            IF c.note.k = "NoteClosureEnv"
                            THEN ClosureEnv(b.upvar.id.closure_expr_id)
                            ELSE NoBlame
                      [] OTHER -> NoBlame
          [] c.cat = "Local" -> ImmLocal(c.n)
          [] c.cat \in {"Rvalue", "Upvar"} \/ (c.cat = "Deref" /\ c.ptr.k = "UnsafePtr") ->
                NoBlame
          [] c.cat \in {"Interior", "Downcast", "Deref"} -> immutability_blame(Base(self))
          [] c.cat = "StaticItem" -> NoBlame

(***************************************************************************)
(* Patterns (hir::Pat).  A pattern records, besides its node kind, what    *)
(* the tables say about it:                                                *)
(*   ty           : tables.node_id_to_type_opt(pat.id)                     *)
(*   bm           : tables.pat_binding_modes[pat.id] (Binding)             *)
(*   def          : tables.qpath_def(qpath, pat.id) (TupleStruct, Struct)  *)
(*   expected_len : the number of fields of the variant, struct or tuple   *)
(*                  type matched (TupleStruct, Tuple)                      *)
(*   ddpos        : the position of `..`, -1 when there is none            *)
(*   subs         : the sub-patterns (TupleStruct, Tuple), the field       *)
(*                  patterns with their names (Struct), the sub-pattern of *)
(*                  a Binding (at most one), of Box and of Ref             *)
(*   before, slice, after : the three parts of a Slice pattern             *)
(***************************************************************************)
PatDef(k, did) == [k |-> k, did |-> did]
NoPatDef == PatDef("-", 0)
ByValueImm == [by |-> "BindByValue", m |-> "MutImmutable"]

Pat(id, node, ty) ==
    [id |-> id, node |-> node, ty |-> ty, bm |-> ByValueImm, def |-> NoPatDef,
     expected_len |-> 0, ddpos |-> -1, subs |-> <<>>, names |-> <<>>,
     before |-> <<>>, slice |-> <<>>, after |-> <<>>]

pat_ty(icx, pat) ==
    LET base_ty == node_ty(icx, pat.ty)
    IN  IF base_ty.r # "Ok" THEN base_ty
        ELSE IF pat.node = "Binding" /\ pat.bm.by = "BindByReference"
        THEN LET d == builtin_deref(base_ty.ty, FALSE)
             IN  IF d[1] THEN TyOk(d[2]) ELSE TyErr
        ELSE base_ty

\* EnumerateAndAdjustIterator (hir::pat_util): the field index of the
\* sub-pattern at position i (from 0) of actual_len sub-patterns
enumerate_and_adjust(i, actual_len, expected_len, gap_pos) ==
    LET gap == IF gap_pos = -1 THEN expected_len ELSE gap_pos
        gap_len == expected_len - actual_len
    IN  IF i < gap THEN i ELSE i + gap_len

Visit(c, pat) == [cmt |-> c, pat |-> pat.id]
PatResult(r, vs) == [r |-> r, visits |-> vs]

RECURSIVE cat_pattern_(_, _, _, _)
RECURSIVE for_subpats(_, _, _, _, _, _)
RECURSIVE for_field_pats(_, _, _, _, _)
RECURSIVE for_slice_pats(_, _, _, _, _)

\* for (i, subpat) in subpats.iter().enumerate_and_adjust(expected_len, ddpos),
\* from the k-th sub-pattern on; vs are the visits made so far
for_subpats(icx, c, pat, expected_len, k, vs) ==
    IF k > Len(pat.subs) THEN PatResult("Ok", vs)
    ELSE LET subpat == pat.subs[k]
             i == enumerate_and_adjust(k - 1, Len(pat.subs), expected_len, pat.ddpos)
             subpat_ty == pat_ty(icx, subpat)
         IN  IF subpat_ty.r # "Ok" THEN PatResult(subpat_ty.r, vs)
             ELSE LET subcmt == cat_imm_interior(pat.id, c, subpat_ty.ty, PositionalField(i))
                      r == cat_pattern_(icx, subcmt, subpat, vs)
                  IN  IF r.r # "Ok" THEN r
                      ELSE for_subpats(icx, c, pat, expected_len, k + 1, r.visits)

\* for fp in field_pats
for_field_pats(icx, c, pat, k, vs) ==
    IF k > Len(pat.subs) THEN PatResult("Ok", vs)
    ELSE LET field_ty == pat_ty(icx, pat.subs[k])
         IN  IF field_ty.r # "Ok" THEN PatResult(field_ty.r, vs)
             ELSE LET cmt_field == cat_field(pat.id, c, pat.names[k], field_ty.ty)
                      r == cat_pattern_(icx, cmt_field, pat.subs[k], vs)
                  IN  IF r.r # "Ok" THEN r
                      ELSE for_field_pats(icx, c, pat, k + 1, r.visits)

\* a variant of for_slice_pats that leaves the parts of a slice pattern alone
for_slice_pats_skipped(icx, elt_cmt, pats, k, vs) == PatResult("Ok", vs)

\* the loops over the before, slice and after parts of a slice pattern
for_slice_pats(icx, elt_cmt, pats, k, vs) ==
    IF k > Len(pats) THEN PatResult("Ok", vs)
    ELSE LET r == cat_pattern_(icx, elt_cmt, pats[k], vs)
         IN  IF r.r # "Ok" THEN r
             ELSE for_slice_pats(icx, elt_cmt, pats, k + 1, r.visits)

cat_pattern_(icx, c, pat, vs0) ==
    LET vs == Append(vs0, Visit(c, pat))
    IN  CASE pat.node = "TupleStruct" ->
                LET pt == pat_ty(icx, pat)
                IN  CASE pat.def.k = "Err" -> PatResult("Err", vs)
                      [] pat.def.k = "VariantCtor" ->
                            for_subpats(icx, cat_downcast_if_needed(pat.id, c, pat.def.did), pat,
                                        pat.expected_len, 1, vs)
                      [] pat.def.k = "StructCtor" ->
                            IF pt.r # "Ok" THEN PatResult(pt.r, vs)
                            ELSE IF Sty(pt.ty) \in {"TyAdt", "TyAdtBox"}
                            THEN for_subpats(icx, c, pat, pat.expected_len, 1, vs)
                            ELSE PatResult("Bug", vs)
                      [] OTHER -> PatResult("Bug", vs)
          [] pat.node = "Struct" ->
                CASE pat.def.k = "Err" -> PatResult("Err", vs)
                  [] pat.def.k \in {"Variant", "VariantCtor"} ->
                        for_field_pats(icx, cat_downcast_if_needed(pat.id, c, pat.def.did), pat, 1, vs)
                  [] OTHER -> for_field_pats(icx, c, pat, 1, vs)
          [] pat.node = "Binding" /\ Len(pat.subs) = 1 ->
                cat_pattern_(icx, c, pat.subs[1], vs)
          [] pat.node = "Tuple" ->
                LET pt == pat_ty(icx, pat)
                IN  IF pt.r # "Ok" THEN PatResult(pt.r, vs)
                    ELSE IF Sty(pt.ty) = "TyTuple"
                    THEN for_subpats(icx, c, pat, pat.expected_len, 1, vs)
                    ELSE PatResult("Bug", vs)
          [] pat.node \in {"Box", "Ref"} ->
                LET subcmt == cat_deref(pat.id, c, FALSE)
                IN  IF subcmt.r # "Ok" THEN PatResult(subcmt.r, vs)
                    ELSE cat_pattern_(icx, subcmt.cmt, pat.subs[1], vs)
          [] pat.node = "Slice" ->
                LET element_ty == builtin_index(Top(c).ty)
                    elt_cmt == cat_index(pat.id, c, element_ty[2], "Pattern")
                    r1 == for_slice_pats(icx, elt_cmt.cmt, pat.before, 1, vs)
                    r2 == for_slice_pats(icx, elt_cmt.cmt, pat.slice, 1, r1.visits)
                IN  IF ~element_ty[1] THEN PatResult("Err", vs)
                    ELSE IF r1.r # "Ok" THEN r1
                    ELSE IF r2.r # "Ok" THEN r2
                    ELSE for_slice_pats(icx, elt_cmt.cmt, pat.after, 1, r2.visits)
          [] OTHER -> PatResult("Ok", vs)

\* a variant of cat_pattern that calls the visitor only when the whole
\* pattern can be categorized
cat_pattern_atomic(icx, c, pat) ==
    LET r == cat_pattern_(icx, c, pat, <<>>)
    IN  IF r.r = "Ok" THEN r ELSE PatResult(r.r, <<>>)

cat_pattern(icx, c, pat) == cat_pattern_(icx, c, pat, <<>>)

(***************************************************************************)
(* The program under analysis: what its tables may record.                 *)
(***************************************************************************)
ra == ReNamed(1)
rb == ReNamed(2)

TyRefBox(m) == TyRef(ra, m, TyBox(TyAdt))
PtrTys == {TyBox(TyAdt), TyRefBox("MutImmutable"), TyRefBox("MutMutable"),
           TyRawPtr("MutImmutable", TyAdt), TyRawPtr("MutMutable", TyAdt)}
BadTyOpts == {TyNone, TyError}

VarIds == {1}
ClosureIds == {5}
FieldNames == {1}
FieldIdxs == {0}

NoEntry == [ty |-> TyNone, method_call |-> FALSE, base_ty_adjusted |-> TyNone,
            promotable |-> "None", scope |-> 0]
NoTables == [closure_kind |-> "None", fn_ty |-> TyNone, var_ty |-> TyNone,
             bm |-> [by |-> "BindByValue", m |-> "MutImmutable"], capture |-> ByValue]
NoSub == [r |-> "None", cmt |-> <<>>]
NoArg == [e |-> NoEntry, t |-> NoTables, def |-> Def("-", FALSE, 0, 0),
          kind |-> "-", prev |-> NoSub, adjustments |-> <<>>]
NoOut == [guarantor |-> <<>>, aliasable |-> NonAliasable, upvar |-> None,
          region |-> NoRegion, blame |-> NoBlame]

\* table entries of an expression whose type is one of tys
Entries(tys) == {[NoEntry EXCEPT !.ty = ty] : ty \in tys}
\* table entries of an expression categorized as an rvalue: promotable,
\* inside the temporary scope 1
RvalueEntries(tys) == {[NoEntry EXCEPT !.ty = ty, !.promotable = "true", !.scope = 1] : ty \in tys}
\* table entries of an overloaded deref or index
OverloadedEntries ==
    {[NoEntry EXCEPT !.ty = ty, !.method_call = TRUE, !.base_ty_adjusted = b,
                     !.promotable = "true", !.scope = 1] :
        ty \in {TyAdt, TyError},
        b \in {TyRef(rb, "MutImmutable", TyAdt), TyRef(rb, "MutMutable", TyAdt), TyAdt, TyNone}}

SpecUpvarTables ==
    {[closure_kind |-> ck, fn_ty |-> TyClosure, var_ty |-> TyAdt, bm |-> bm, capture |-> c] :
        ck \in ClosureKinds,
        bm \in {[by |-> "BindByValue", m |-> m] : m \in Mutabilities},
        c \in {ByValue, ByRef("UniqueImmBorrow", rb)}}
LocalTables == {[NoTables EXCEPT !.bm = bm] : bm \in BindingModes}

Adjustments ==
    {Adjustment("Deref", TyAdt, NoRegion, "-")}
    \cup {Adjustment("OverloadedDeref", TyAdt, rb, m) : m \in Mutabilities}
    \cup {Adjustment(k, TyRef(ra, "MutImmutable", TyAdt), NoRegion, "-") : k \in NonDerefAdjusts}

(***************************************************************************)
(* The patterns of the program under analysis.  The root of a pattern has  *)
(* the node id `id`; the sub-pattern that is itself nested has the id      *)
(* 10 * id, its leaf siblings have the ids 10 * id + 1 and 10 * id + 2.    *)
(***************************************************************************)
NoPat == Pat(0, "-", TyNone)
ByRefImm == [by |-> "BindByReference", m |-> "MutImmutable"]
TyBoxRefSlice == TyBox(TyRef(ra, "MutMutable", TySlice(TyAdt)))
TyRefBoxSlice == TyRef(ra, "MutImmutable", TyBox(TySlice(TyAdt)))

PatBinding(id, ty, bm, subs) == [Pat(id, "Binding", ty) EXCEPT !.bm = bm, !.subs = subs]
PatTupleStruct(id, ty, def, subs, ddpos, expected_len) ==
    [Pat(id, "TupleStruct", ty) EXCEPT !.def = def, !.subs = subs, !.ddpos = ddpos,
                                       !.expected_len = expected_len]
PatStruct(id, ty, def, names, subs) ==
    [Pat(id, "Struct", ty) EXCEPT !.def = def, !.names = names, !.subs = subs]
PatTuple(id, ty, subs, ddpos, expected_len) ==
    [Pat(id, "Tuple", ty) EXCEPT !.subs = subs, !.ddpos = ddpos, !.expected_len = expected_len]
PatBox(id, ty, subpat) == [Pat(id, "Box", ty) EXCEPT !.subs = <<subpat>>]
PatRef(id, ty, subpat) == [Pat(id, "Ref", ty) EXCEPT !.subs = <<subpat>>]
PatSlice(id, ty, before, slice, after) ==
    [Pat(id, "Slice", ty) EXCEPT !.before = before, !.slice = slice, !.after = after]

\* the patterns without sub-patterns; the last two have table entries that
\* make pat_ty fail
Leaves(id) ==
    {Pat(id, node, TyAdt) : node \in {"Wild", "Lit", "Range", "Path"}}
    \cup {PatBinding(id, TyAdt, ByValueImm, <<>>),
          PatBinding(id, TyRef(ra, "MutImmutable", TyAdt), ByRefImm, <<>>),
          PatBinding(id, TyAdt, ByRefImm, <<>>),
          Pat(id, "Wild", TyNone)}

\* the shapes of the patterns that have sub-patterns
Shapes ==
    {"box", "ref", "binding", "variant", "variant ..", "univariant ..", "struct ctor ..",
     "struct ctor untyped", "unresolved ctor", "variant fields", "struct fields",
     "tuple", "tuple untyped ..", "slice", "slice after"}

\* the pattern of the given shape with root id whose nested sub-pattern is c
Composite(id, shape, c) ==
    LET w == Pat(10 * id + 1, "Wild", TyAdt)
        b == PatBinding(10 * id + 2, TyAdt, ByValueImm, <<>>)
    IN  CASE shape = "box" -> PatBox(id, TyBoxRefSlice, c)
          [] shape = "ref" -> PatRef(id, TyRefBoxSlice, c)
          [] shape = "binding" -> PatBinding(id, c.ty, ByValueImm, <<c>>)
          [] shape = "variant" ->
                PatTupleStruct(id, TyEnum, PatDef("VariantCtor", 11), <<c, b>>, -1, 2)
          [] shape = "variant .." ->
                PatTupleStruct(id, TyEnum, PatDef("VariantCtor", 11), <<w, c>>, 1, 3)
          [] shape = "univariant .." ->
                PatTupleStruct(id, TyEnum, PatDef("VariantCtor", 21), <<c, w>>, 0, 3)
          [] shape = "struct ctor .." ->
                PatTupleStruct(id, TyAdt, PatDef("StructCtor", 30), <<w, c>>, 1, 3)
          [] shape = "struct ctor untyped" ->
                PatTupleStruct(id, TyNone, PatDef("StructCtor", 30), <<c>>, -1, 1)
          [] shape = "unresolved ctor" ->
                PatTupleStruct(id, TyAdt, PatDef("Err", 0), <<c>>, -1, 1)
          [] shape = "variant fields" ->
                PatStruct(id, TyEnum, PatDef("Variant", 11), <<1, 2>>, <<c, w>>)
          [] shape = "struct fields" ->
                PatStruct(id, TyAdt, PatDef("Struct", 30), <<2, 1>>, <<b, c>>)
          [] shape = "tuple" -> PatTuple(id, TyTuple, <<c, w>>, -1, 2)
          [] shape = "tuple untyped .." -> PatTuple(id, TyAdt, <<b, c>>, 1, 3)
          [] shape = "slice" -> PatSlice(id, TySlice(TyAdt), <<c>>, <<w>>, <<b>>)
          [] shape = "slice after" -> PatSlice(id, TySlice(TyAdt), <<w>>, <<>>, <<c>>)

RECURSIVE Patterns(_, _)
Patterns(id, depth) ==
    IF depth = 0 THEN Leaves(id)
    ELSE Leaves(id)
         \cup {Composite(id, shape, c) : shape \in Shapes, c \in Patterns(10 * id, depth - 1)}

\* the patterns the expressions categorized by Spec are matched against
SpecPatterns ==
    {Composite(5, shape, Pat(50, "Wild", TyAdt)) : shape \in {"variant", "ref", "slice"}}

(***************************************************************************)
(* Spec: cat_expr, bottom-up.  The state holds the McResult of cat_expr on *)
(* the sub-expression categorized so far; every action categorizes the     *)
(* expression that encloses it, or applies one more of its adjustments.    *)
(***************************************************************************)
Init ==
    /\ cmt = <<>> /\ res = "None" /\ op = "new" /\ eid = 0
    /\ infcx \in InferCtxts /\ features \in BOOLEAN
    /\ arg = NoArg /\ out = NoOut /\ visits = <<>> /\ rootpat = NoPat

ReturnWith(result, name, id, a) ==
    /\ op # "cat_pattern"
    /\ Len(result.cmt) <= MaxDepth
    /\ cmt' = result.cmt /\ res' = result.r /\ op' = name /\ eid' = id
    /\ arg' = IF result.r = "Ok" THEN a ELSE NoArg
    /\ UNCHANGED <<infcx, features, out, visits, rootpat>>

Return(result, name, id) == ReturnWith(result, name, id, arg)

Prev == [r |-> res, cmt |-> cmt]

ExprPathRvalue ==
    /\ res = "None"
    /\ \E e \in RvalueEntries({TyAdt, TyBox(TyAdt)} \cup BadTyOpts), k \in RvalueDefs :
          Return(cat_expr_ExprPath(infcx, features, 1, e, Def(k, FALSE, 0, 0), NoTables),
                 "ExprPath", 1)

ExprPathStatic ==
    /\ res = "None"
    /\ \E e \in Entries({TyAdt, TyBox(TyAdt)} \cup BadTyOpts), mutbl \in BOOLEAN :
          Return(cat_expr_ExprPath(infcx, features, 1, e, Def("Static", mutbl, 0, 0), NoTables),
                 "ExprPath", 1)

ExprPathUpvar ==
    /\ res = "None"
    /\ \E e \in Entries({TyAdt}), t \in SpecUpvarTables, v \in VarIds, f \in ClosureIds :
          ReturnWith(cat_expr_ExprPath(infcx, features, 1, e, Def("Upvar", FALSE, v, f), t),
                     "ExprPath", 1,
                     [NoArg EXCEPT !.e = e, !.t = t, !.def = Def("Upvar", FALSE, v, f)])

ExprPathLocal ==
    /\ res = "None"
    /\ \E e \in Entries({TyAdt, TyInfer, TyInferKnown} \cup PtrTys \cup BadTyOpts),
          t \in LocalTables, v \in VarIds :
          Return(cat_expr_ExprPath(infcx, features, 1, e, Def("Local", FALSE, v, 0), t),
                 "ExprPath", 1)

ExprPathOther ==
    /\ res = "None"
    /\ \E e \in Entries({TyAdt}), k \in {"Mod", "Err"} :
          Return(cat_expr_ExprPath(infcx, features, 1, e, Def(k, FALSE, 0, 0), NoTables),
                 "ExprPath", 1)

ExprRvalue ==
    /\ res = "None"
    /\ \E e \in RvalueEntries({TyAdt, TyBox(TyAdt), TyArray0(TyAdt)} \cup BadTyOpts) :
          Return(cat_expr_rvalue(infcx, features, 1, e), "ExprRvalue", 1)

ExprField ==
    /\ res # "None" /\ eid < MaxDepth
    /\ \E e \in Entries({TyAdt, TyRefBox("MutImmutable")} \cup BadTyOpts),
          f_name \in FieldNames :
          Return(cat_expr_ExprField(infcx, eid + 1, e, f_name, Prev), "ExprField", eid + 1)

ExprTupField ==
    /\ res # "None" /\ eid < MaxDepth
    /\ \E e \in Entries({TyAdt} \cup BadTyOpts), idx \in FieldIdxs :
          Return(cat_expr_ExprTupField(infcx, eid + 1, e, idx, Prev), "ExprTupField", eid + 1)

ExprIndex ==
    /\ res # "None" /\ eid < MaxDepth
    /\ \E e \in Entries({TyAdt} \cup BadTyOpts) \cup OverloadedEntries :
          Return(cat_expr_ExprIndex(infcx, features, eid + 1, e, Prev), "ExprIndex", eid + 1)

ExprUnaryDeref ==
    /\ res # "None" /\ eid < MaxDepth
    /\ \E e \in Entries({TyAdt} \cup BadTyOpts) \cup OverloadedEntries :
          Return(cat_expr_ExprUnaryDeref(infcx, features, eid + 1, e, Prev),
                 "ExprUnaryDeref", eid + 1)

ExprType ==
    /\ res # "None" /\ eid < MaxDepth
    /\ \E e \in Entries({TyAdt} \cup BadTyOpts) :
          Return(cat_expr_ExprType(infcx, e, Prev), "ExprType", eid + 1)

\* one more adjustment of the expression eid (cat_expr::helper)
Adjust ==
    /\ res # "None"
    /\ \E a \in Adjustments, e \in RvalueEntries({TyNone}) :
          Return(cat_expr_adjusted_with(infcx, features, eid, e, Prev, a), "Adjust", eid)

\* cat_pattern(cmt, p, visit) for a pattern p of ps, the visitor recording
\* its calls; the scrutinee is the place categorized last
CatPatternOf(ps) ==
    /\ res = "Ok" /\ op # "cat_pattern"
    /\ \E p \in ps :
          LET r == cat_pattern(infcx, cmt, p)
          IN  /\ rootpat' = p /\ visits' = r.visits /\ res' = r.r /\ op' = "cat_pattern"
              /\ UNCHANGED <<cmt, eid, infcx, features, arg, out>>

CatPattern == CatPatternOf(SpecPatterns)

Next ==
    \/ ExprPathRvalue \/ ExprPathStatic \/ ExprPathUpvar \/ ExprPathLocal \/ ExprPathOther
    \/ ExprRvalue
    \/ ExprField \/ ExprTupField \/ ExprIndex \/ ExprUnaryDeref \/ ExprType
    \/ Adjust
    \/ CatPattern

Spec == Init /\ [][Next]_vars

(***************************************************************************)
(* Properties of the places the categorizer produces.                      *)
(***************************************************************************)
\* the places of the state: the one categorized last and those handed to
\* the visitor of cat_pattern
Places == {cmt} \cup {visits[i].cmt : i \in DOMAIN visits}

\* a node that inherits its mutability: Interior, Downcast, Deref of a Box
Inheriting(n) ==
    n.cat \in {"Interior", "Downcast"} \/ (n.cat = "Deref" /\ n.ptr.k = "Unique")

\* nodes i+1 .. j of p are all inheriting steps over the base p[i]
InheritingSteps(p, i, j) == i < j /\ \A k \in (i + 1)..j : Inheriting(p[k])

\* C1: a place reached from a base by any sequence of Interior, Downcast and
\* Deref-of-Box steps is mutable (McDeclared or McInherited) exactly when
\* the base is, and McImmutable exactly when the base is.
C1_InheritanceLaw ==
    \A p \in Places : \A i, j \in DOMAIN p :
        InheritingSteps(p, i, j) =>
            /\ (p[j].mutbl \in {"McDeclared", "McInherited"}
                  <=> p[i].mutbl \in {"McDeclared", "McInherited"})
            /\ (p[j].mutbl = "McImmutable" <=> p[i].mutbl = "McImmutable")

\* a declared-mutable base under a Deref of a Box, a Downcast and an Interior
C1_Witness ==
    \E p \in Places : \E i, j \in DOMAIN p :
        /\ InheritingSteps(p, i, j) /\ j >= i + 3
        /\ p[i].mutbl = "McDeclared" /\ p[j].mutbl = "McInherited"
        /\ \E k \in (i + 1)..j : p[k].cat = "Downcast"
        /\ \E k \in (i + 1)..j : p[k].cat = "Deref"

\* a Deref through a shared borrow or through a *const raw pointer
SharedDeref(n) ==
    /\ n.cat = "Deref"
    /\ \/ n.ptr.k \in {"BorrowedPtr", "Implicit"} /\ n.ptr.bk = "ImmBorrow"
       \/ n.ptr.k = "UnsafePtr" /\ n.ptr.m = "MutImmutable"

\* C2: the place produced by dereferencing a base through a shared borrow
\* (BorrowedPtr or Implicit with ImmBorrow) or through an immutable raw
\* pointer is McImmutable, whatever the mutability of the base.
C2_SharedDerefImmutable ==
    \A p \in Places : \A i \in DOMAIN p :
        SharedDeref(p[i]) => p[i].mutbl = "McImmutable"

\* a shared deref of a base that is mutable by inheritance
C2_Witness ==
    \E p \in Places : \E i \in DOMAIN p :
        /\ i > 1 /\ SharedDeref(p[i]) /\ p[i].mutbl = "McImmutable"
        /\ p[i - 1].mutbl = "McInherited"

\* the mutability a borrow kind, or the mutability of a raw pointer, gives
MutblOfBorrowKind(bk) == IF bk = "MutBorrow" THEN "McDeclared" ELSE "McImmutable"
MutblOfRawPtr(m) == IF m = "MutMutable" THEN "McDeclared" ELSE "McImmutable"

\* the statement of C3 as written: the mutability of every Deref through a
\* borrowed or implicit pointer is a function of the borrow kind alone
C3_Original ==
    \A p \in Places : \A i \in DOMAIN p :
        /\ (p[i].cat = "Deref" /\ p[i].ptr.k \in {"BorrowedPtr", "Implicit"})
              => p[i].mutbl = MutblOfBorrowKind(p[i].ptr.bk)
        /\ (p[i].cat = "Deref" /\ p[i].ptr.k = "UnsafePtr")
              => p[i].mutbl = MutblOfRawPtr(p[i].ptr.m)

\* the declared mutability of the captured variable the place is rooted in
DeclaredImmutable == from_local(arg.t.bm) = "McImmutable"

\* C3: in every place the categorizer produces, a Deref through a borrowed
\* or implicit pointer has the mutability its borrow kind gives (MutBorrow:
\* McDeclared, ImmBorrow and UniqueImmBorrow: McImmutable), except the deref
\* of the closure environment (NoteClosureEnv), which is McImmutable when
\* the captured variable is declared immutable; a Deref through a raw
\* pointer has the mutability the pointer declares.
C3_DerefMutability ==
    \A p \in Places : \A i \in DOMAIN p :
        /\ (p[i].cat = "Deref" /\ p[i].ptr.k \in {"BorrowedPtr", "Implicit"})
              => p[i].mutbl = IF p[i].note.k = "NoteClosureEnv" /\ DeclaredImmutable
                              THEN "McImmutable"
                              ELSE MutblOfBorrowKind(p[i].ptr.bk)
        /\ (p[i].cat = "Deref" /\ p[i].ptr.k = "UnsafePtr")
              => p[i].mutbl = MutblOfRawPtr(p[i].ptr.m)

\* the environment of an FnMut closure dereferenced for a variable declared
\* immutable, under a pattern
C3_Witness ==
    /\ op = "cat_pattern" /\ DeclaredImmutable
    /\ \E p \in Places : \E i \in DOMAIN p :
          /\ p[i].cat = "Deref" /\ p[i].note.k = "NoteClosureEnv"
          /\ p[i].ptr.bk = "MutBorrow" /\ p[i].mutbl = "McImmutable"

(***************************************************************************)
(* PatSpec: cat_pattern on the patterns of at most MaxPatDepth levels of   *)
(* sub-patterns, matched against a local variable.                         *)
(***************************************************************************)
Scrutinees ==
    {cat_def("None", FALSE, 1, d[1], Def("Local", FALSE, 1, 0), NoEntry,
             [NoTables EXCEPT !.bm = [by |-> "BindByValue", m |-> d[2]]]).cmt :
        d \in {<<TyEnum, "MutImmutable">>, <<TyBoxRefSlice, "MutMutable">>,
                <<TySlice(TyAdt), "MutImmutable">>}}

PatInit ==
    /\ cmt \in Scrutinees /\ res = "Ok" /\ op = "cat_expr" /\ eid = 1
    /\ infcx \in InferCtxts /\ features = FALSE
    /\ arg = NoArg /\ out = NoOut /\ visits = <<>> /\ rootpat = NoPat

\* the patterns cat_pattern is handed: every pattern of at most MaxPatDepth
\* levels of sub-patterns
DeepPatterns == Patterns(5, MaxPatDepth)

CatPatternDeep == CatPatternOf(DeepPatterns)

PatNext == CatPatternDeep

PatSpec == PatInit /\ [][PatNext]_vars

\* the sub-patterns of a pattern, in source order
Children(p) == p.subs \o p.before \o p.slice \o p.after

RECURSIVE PreOrder(_)
RECURSIVE PreOrderAll(_)
\* the ids of the nodes of a pattern: the pattern, then its sub-patterns
PreOrder(p) == <<p.id>> \o PreOrderAll(Children(p))
PreOrderAll(ps) == IF ps = <<>> THEN <<>> ELSE PreOrder(Head(ps)) \o PreOrderAll(Tail(ps))

RECURSIVE PatNodes(_)
\* the nodes of a pattern
PatNodes(p) == {p} \cup UNION {PatNodes(Children(p)[k]) : k \in DOMAIN Children(p)}

Visited(id) == \E k \in DOMAIN visits : visits[k].pat = id
\* the place the visitor was handed with the pattern node id
PlaceOf(id) == visits[CHOOSE k \in DOMAIN visits : visits[k].pat = id].cmt
IsPrefix(p, q) == Len(p) <= Len(q) /\ SubSeq(q, 1, Len(p)) = p

\* C9: when cat_pattern returns Ok the visitor has been called exactly once
\* for every node of the pattern, the root included, a pattern before its
\* sub-patterns and the sub-patterns in source order, each node with the
\* place computed for it: the scrutinee for the root, a place reached from
\* the place of its parent for a sub-pattern.
C9_PreOrderVisit ==
    (op = "cat_pattern" /\ res = "Ok") =>
        /\ [k \in DOMAIN visits |-> visits[k].pat] = PreOrder(rootpat)
        /\ visits[1].cmt = cmt
        /\ \A q \in PatNodes(rootpat) : \A k \in DOMAIN Children(q) :
              IsPrefix(PlaceOf(q.id), PlaceOf(Children(q)[k].id))

\* a pattern whose first sub-pattern has three sub-patterns of its own,
\* visited to the end
C9_Witness ==
    /\ op = "cat_pattern" /\ res = "Ok" /\ Len(visits) = 6
    /\ Len(rootpat.subs) = 2 /\ rootpat.subs[1].node = "Slice"
    /\ [k \in DOMAIN visits |-> visits[k].pat] = <<5, 50, 500, 501, 502, 52>>

\* the field the k-th of the sub-patterns of q matches: sub-patterns before
\* the `..` count from the first field, those after it from the last
FieldOf(q, k) ==
    IF q.ddpos = -1 \/ k - 1 < q.ddpos THEN k - 1
    ELSE q.expected_len - (Len(q.subs) - k) - 1

\* C10: the sub-pattern for field i of a tuple-struct pattern is visited with
\* the place Interior(B, PositionalField(i)), where B is
\* Downcast(place of the pattern, variant) when the pattern resolves to a
\* variant of an enum with more than one variant, and the place of the
\* pattern itself when it resolves to the variant of a single-variant type
\* or to a struct constructor; every sub-place has the same base B.
C10_TupleStructPlaces ==
    op = "cat_pattern" =>
        \A q \in PatNodes(rootpat) :
            (q.node = "TupleStruct" /\ q.def.k \in {"VariantCtor", "StructCtor"} /\ Visited(q.id)) =>
                \A k \in DOMAIN q.subs :
                    Visited(q.subs[k].id) =>
                        LET P == PlaceOf(q.subs[k].id)
                            B == Base(P)
                        IN  /\ Top(P).cat = "Interior"
                            /\ Top(P).ik = PositionalField(FieldOf(q, k))
                            /\ IF q.def.k = "VariantCtor"
                                  /\ Cardinality(adt_variants(parent_def_id(q.def.did))) > 1
                               THEN /\ Top(B).cat = "Downcast" /\ Top(B).n = q.def.did
                                    /\ Base(B) = PlaceOf(q.id)
                               ELSE B = PlaceOf(q.id)

\* a sub-pattern after the `..` of a pattern for a variant of a two-variant
\* enum, nested in a pattern for the variant of a single-variant type
C10_Witness ==
    /\ op = "cat_pattern" /\ res = "Ok"
    /\ rootpat.node = "TupleStruct" /\ rootpat.def = PatDef("VariantCtor", 21)
    /\ rootpat.subs[1].node = "TupleStruct" /\ rootpat.subs[1].def = PatDef("VariantCtor", 11)
    /\ rootpat.subs[1].ddpos = 1
    /\ Top(PlaceOf(500)).ik = PositionalField(2)
    /\ Top(Base(PlaceOf(500))).cat = "Downcast"
    /\ Top(Base(PlaceOf(50))).cat = "Local"

PointerKinds ==
    {Unique} \cup {BorrowedPtr(bk, ra) : bk \in BorrowKinds}
    \cup {Implicit(bk, ra) : bk \in BorrowKinds} \cup {UnsafePtr(m) : m \in Mutabilities}

\* the nodes a tree may be rooted in, and those that have a base
BaseNodes == {Node(1, cat, mutbl, TyAdt, NoteNone) : cat \in BaseCats, mutbl \in MutabilityCategories}
WrapNodes ==
    {[Node(1, "Deref", mutbl, TyAdt, NoteNone) EXCEPT !.ptr = ptr] :
        mutbl \in MutabilityCategories, ptr \in PointerKinds}
    \cup {[Node(1, "Interior", mutbl, TyAdt, NoteNone) EXCEPT !.ik = ik] :
             mutbl \in MutabilityCategories, ik \in {NamedField(1), InteriorElement("Index")}}
    \cup {[Node(1, "Downcast", mutbl, TyAdt, NoteNone) EXCEPT !.n = 11] :
             mutbl \in MutabilityCategories}

TreeInit ==
    /\ cmt = <<>> /\ res = "None" /\ op = "new" /\ eid = 0
    /\ infcx = "None" /\ features = FALSE
    /\ arg = NoArg /\ out = NoOut /\ visits = <<>> /\ rootpat = NoPat

TreeBase ==
    /\ op = "new"
    /\ \E n \in BaseNodes : cmt' = <<n>>
    /\ res' = "Ok" /\ op' = "tree"
    /\ UNCHANGED <<eid, infcx, features, arg, out, visits, rootpat>>

\* cat_def of a path that resolves to a static item
TreeStatic ==
    /\ op = "new"
    /\ \E mutbl \in BOOLEAN :
          LET def == Def("Static", mutbl, 0, 0)
              r == cat_def(infcx, features, 1, TyAdt, def, NoEntry, NoTables)
          IN  /\ cmt' = r.cmt /\ res' = r.r
              /\ arg' = [NoArg EXCEPT !.def = def]
    /\ op' = "tree"
    /\ UNCHANGED <<eid, infcx, features, out, visits, rootpat>>

TreeWrap ==
    /\ op = "tree" /\ Len(cmt) < MaxTreeDepth
    /\ \E n \in WrapNodes : cmt' = Append(cmt, n)
    /\ UNCHANGED <<res, op, eid, infcx, features, arg, out, visits, rootpat>>

\* guarantor(), freely_aliasable() and upvar() of the place
Query ==
    /\ op \in {"tree", "cat_upvar"} /\ res = "Ok"
    /\ out' = [NoOut EXCEPT !.guarantor = guarantor(cmt),
                            !.aliasable = freely_aliasable(cmt),
                            !.upvar = upvar(cmt)]
    /\ op' = "query"
    /\ UNCHANGED <<cmt, res, eid, infcx, features, arg, visits, rootpat>>

TreeNext == TreeBase \/ TreeStatic \/ TreeWrap \/ Query

TreeSpec == TreeInit /\ [][TreeNext]_vars

\* C4: guarantor() is idempotent: the guarantor of the guarantor of a place
\* is the guarantor of the place.
C4_GuarantorIdempotent ==
    op = "query" => guarantor(out.guarantor) = out.guarantor

\* a place whose guarantor lies two steps below it
C4_Witness ==
    /\ op = "query" /\ Len(cmt) = 3 /\ Len(out.guarantor) = 1
    /\ cmt[2].cat = "Deref" /\ cmt[3].cat = "Interior"

\* the nodes above the first i nodes of p are Interior and Downcast nodes
Projection(p, i) == \A k \in (i + 1)..Len(p) : p[k].cat \in {"Interior", "Downcast"}

\* C5: when a place b is FreelyAliasable(r), every place that wraps b in any
\* number of Interior and Downcast nodes is FreelyAliasable(r) as well.
C5_AliasabilityUnderProjection ==
    op = "query" =>
        \A i \in 1..(Len(cmt) - 1) :
            (Projection(cmt, i) /\ freely_aliasable(SubSeq(cmt, 1, i)).k = "FreelyAliasable")
                => out.aliasable = freely_aliasable(SubSeq(cmt, 1, i))

\* a `static mut` under an Interior and a Downcast
C5_Witness ==
    /\ op = "query" /\ Len(cmt) = 3 /\ Projection(cmt, 1)
    /\ cmt[2].cat # cmt[3].cat
    /\ cmt[1].cat = "StaticItem" /\ cmt[1].mutbl = "McDeclared"
    /\ out.aliasable = FreelyAliasable("AliasableStaticMut")

\* C6: freely_aliasable() is NonAliasable for a place whose own category is
\* Rvalue, Local, Upvar or Deref through UnsafePtr; for a StaticItem it is
\* FreelyAliasable(AliasableStaticMut) when the static is mutable (cat_def
\* gives a `static mut` the mutability McDeclared) and
\* FreelyAliasable(AliasableStatic) otherwise; for a Deref through a shared
\* borrow it is FreelyAliasable(AliasableBorrowed) whatever the base is.
C6_AliasabilityTerminals ==
    op = "query" =>
        LET c == Top(cmt)
        IN  /\ (c.cat \in {"Rvalue", "Local", "Upvar"} \/ (c.cat = "Deref" /\ c.ptr.k = "UnsafePtr"))
                  => out.aliasable = NonAliasable
            /\ (c.cat = "StaticItem" /\ c.mutbl \in {"McDeclared", "McInherited"})
                  => out.aliasable = FreelyAliasable("AliasableStaticMut")
            /\ (c.cat = "StaticItem" /\ c.mutbl = "McImmutable")
                  => out.aliasable = FreelyAliasable("AliasableStatic")
            /\ (c.cat = "Deref" /\ c.ptr.k \in {"BorrowedPtr", "Implicit"} /\ c.ptr.bk = "ImmBorrow")
                  => out.aliasable = FreelyAliasable("AliasableBorrowed")
            /\ (arg.def.k = "Static" /\ Len(cmt) = 1)
                  => /\ c.cat = "StaticItem"
                     /\ c.mutbl = IF arg.def.mutbl THEN "McDeclared" ELSE "McImmutable"
                     /\ out.aliasable = IF arg.def.mutbl THEN FreelyAliasable("AliasableStaticMut")
                                        ELSE FreelyAliasable("AliasableStatic")

\* the `static mut` cat_def categorized, queried
C6_Witness ==
    /\ op = "query" /\ arg.def.k = "Static" /\ arg.def.mutbl /\ Len(cmt) = 1
    /\ out.aliasable = FreelyAliasable("AliasableStaticMut")

(***************************************************************************)
(* UpvarSpec: cat_upvar on every combination of closure kind, capture mode *)
(* and binding mode the tables may record, then the queries of the place.  *)
(***************************************************************************)
UpvarTables ==
    {[closure_kind |-> ck, fn_ty |-> fn_ty, var_ty |-> var_ty, bm |-> bm, capture |-> c] :
        ck \in ClosureKinds \cup {"None"}, fn_ty \in {TyClosure, TyGenerator, TyNone},
        var_ty \in {TyAdt, TyBox(TyAdt), TyNone}, bm \in BindingModes,
        c \in {ByValue} \cup {ByRef(bk, rb) : bk \in BorrowKinds}}

UpvarInit ==
    /\ cmt = <<>> /\ res = "None" /\ op = "new" /\ eid = 0
    /\ infcx \in InferCtxts /\ features = FALSE
    /\ arg = NoArg /\ out = NoOut /\ visits = <<>> /\ rootpat = NoPat

CatUpvar ==
    /\ op = "new"
    /\ \E t \in UpvarTables, v \in VarIds, f \in ClosureIds :
          LET r == cat_upvar(infcx, 1, v, f, t)
          IN  /\ cmt' = r.cmt /\ res' = r.r
              /\ arg' = [NoArg EXCEPT !.t = t, !.def = Def("Upvar", FALSE, v, f)]
    /\ op' = "cat_upvar" /\ eid' = 1
    /\ UNCHANGED <<infcx, features, out, visits, rootpat>>

UpvarNext == CatUpvar \/ Query

UpvarSpec == UpvarInit /\ [][UpvarNext]_vars

\* the upvar id of the variable cat_upvar was called for
ArgUpvarId == UpvarId(arg.def.var_id, arg.def.fn_node_id)

\* C7: for an FnOnce closure and a variable captured by value, cat_upvar
\* returns a place of exactly one node: an Upvar with the note NoteNone, the
\* declared mutability of the variable and the type of the variable.
C7_FnOnceByValue ==
    (res = "Ok" /\ arg.t.closure_kind = "FnOnce" /\ arg.t.capture = ByValue) =>
        /\ Len(cmt) = 1
        /\ cmt[1].cat = "Upvar" /\ cmt[1].note = NoteNone
        /\ cmt[1].mutbl = IF arg.t.bm = [by |-> "BindByValue", m |-> "MutMutable"]
                          THEN "McDeclared" ELSE "McImmutable"
        /\ cmt[1].ty = arg.t.var_ty

\* a variable declared `mut`, captured by value by an FnOnce closure
C7_Witness ==
    /\ res = "Ok" /\ arg.t.closure_kind = "FnOnce" /\ arg.t.capture = ByValue
    /\ arg.t.bm = [by |-> "BindByValue", m |-> "MutMutable"]
    /\ Len(cmt) = 1 /\ cmt[1].mutbl = "McDeclared"

\* C8: for an Fn closure and a variable captured by reference, cat_upvar
\* returns two Deref nodes over an Upvar node, the inner one with the note
\* NoteClosureEnv(upvar_id), the outer one with NoteUpvarRef(upvar_id), and
\* upvar() of that place is Some place whose category is Upvar.
C8_FnByRef ==
    (res = "Ok" /\ arg.t.closure_kind = "Fn" /\ arg.t.capture.by = "ByRef") =>
        /\ Len(cmt) = 3
        /\ cmt[1].cat = "Upvar"
        /\ cmt[2].cat = "Deref" /\ cmt[2].note = NoteClosureEnv(ArgUpvarId)
        /\ cmt[3].cat = "Deref" /\ cmt[3].note = NoteUpvarRef(ArgUpvarId)
        /\ op = "query" => (out.upvar.r = "Some" /\ Top(out.upvar.cmt).cat = "Upvar")

\* upvar() asked of the place of a variable an Fn closure captured by
\* reference
C8_Witness ==
    /\ op = "query" /\ arg.t.closure_kind = "Fn" /\ arg.t.capture.by = "ByRef"
    /\ Len(cmt) = 3 /\ out.upvar.r = "Some" /\ out.upvar.cmt = <<cmt[1]>>

(***************************************************************************)
(* ExprSpec: one call of cat_expr on an expression with its whole list of  *)
(* adjustments.  The initial state holds the McResult of cat_expr on the   *)
(* sub-expression (none for a path or an rvalue expression); the call      *)
(* records its inputs in arg.                                              *)
(***************************************************************************)
LocalOf(ty, m) ==
    cat_def("None", FALSE, 1, ty, Def("Local", FALSE, 1, 0), NoEntry,
            [NoTables EXCEPT !.bm = [by |-> "BindByValue", m |-> m]]).cmt

\* the places of the sub-expression: locals of a struct, box, reference,
\* raw pointer and array type, and the slice behind a reference
SubPlaces ==
    {LocalOf(ty, m) :
        ty \in {TyAdt, TyArray(TyAdt)} \cup PtrTys
               \cup {TyRef(ra, bm, TyAdt) : bm \in Mutabilities},
        m \in Mutabilities}
    \cup {cat_deref(1, LocalOf(TyRef(ra, m, TySlice(TyAdt)), "MutImmutable"), FALSE).cmt :
            m \in Mutabilities}

SubResults == {NoSub, Err, Bug} \cup {Ok(p) : p \in SubPlaces}

\* expressions without a sub-expression: paths and rvalue expressions
LeafExprs ==
    {Expr("ExprPath", e, Def("Local", FALSE, 1, 0), t) :
        e \in Entries({TyAdt, TyBox(TyAdt), TyRefBox("MutMutable"), TyInfer, TyInferKnown}
                      \cup BadTyOpts),
        t \in LocalTables}
    \cup {Expr("ExprPath", e, Def("Static", mutbl, 0, 0), NoTables) :
            e \in Entries({TyAdt, TyError}), mutbl \in BOOLEAN}
    \cup {Expr("ExprPath", e, Def(k, FALSE, 0, 0), NoTables) :
            e \in RvalueEntries({TyAdt, TyNone}), k \in RvalueDefs \cup {"Mod", "Err"}}
    \cup {Expr("ExprPath", e, Def("Upvar", FALSE, 1, 5), t) :
            e \in Entries({TyAdt}), t \in SpecUpvarTables}
    \cup {Expr("ExprCall", e, Def("-", FALSE, 0, 0), NoTables) :
            e \in RvalueEntries({TyAdt, TyArray0(TyAdt), TyInfer} \cup BadTyOpts)}

\* expressions over a sub-expression
BaseExprs ==
    {Expr(k, e, Def("-", FALSE, 0, 0), NoTables) :
        k \in {"ExprUnaryDeref", "ExprIndex"},
        e \in Entries({TyAdt} \cup BadTyOpts) \cup OverloadedEntries}
    \cup {Expr(k, e, Def("-", FALSE, 0, 0), NoTables) :
            k \in {"ExprField", "ExprTupField", "ExprType"},
            e \in Entries({TyAdt} \cup BadTyOpts)}

\* the adjustments of an expression: the last of them any adjustment, the
\* ones before it a built-in deref, an overloaded deref or a borrow
LastAdjustments ==
    Adjustments \cup {Adjustment("Unsize", TyInferKnown, NoRegion, "-")}
InnerAdjustments ==
    {Adjustment("Deref", TyAdt, NoRegion, "-"),
     Adjustment("OverloadedDeref", TyBox(TyAdt), rb, "MutMutable"),
     Adjustment("Borrow", TyRef(ra, "MutImmutable", TyAdt), NoRegion, "-")}

RECURSIVE InnerLists(_)
InnerLists(n) ==
    IF n = 0 THEN {<<>>}
    ELSE LET shorter == InnerLists(n - 1)
         IN  shorter \cup {Append(l, a) : l \in shorter, a \in InnerAdjustments}

AdjustmentLists ==
    {<<>>} \cup {Append(l, a) : l \in InnerLists(MaxAdjustments - 1), a \in LastAdjustments}

ExprInit ==
    /\ \E sub \in SubResults :
          /\ cmt = sub.cmt /\ res = sub.r
          /\ eid = IF sub = NoSub THEN 0 ELSE 1
    /\ op = "new"
    /\ infcx \in InferCtxts /\ features = FALSE
    /\ arg = NoArg /\ out = NoOut /\ visits = <<>> /\ rootpat = NoPat

\* cat_expr(expr), the tables holding `adjustments` for expr
CatExprOf(exprs) ==
    /\ op = "new"
    /\ \E expr \in exprs, adjustments \in AdjustmentLists :
          LET r == cat_expr(infcx, features, eid + 1, expr, Prev, adjustments)
          IN  /\ cmt' = r.cmt /\ res' = r.r /\ op' = "cat_expr" /\ eid' = eid + 1
              /\ arg' = [NoArg EXCEPT !.e = expr.e, !.t = expr.t, !.def = expr.def,
                                      !.kind = expr.kind, !.prev = Prev,
                                      !.adjustments = adjustments]
              /\ UNCHANGED <<infcx, features, out, visits, rootpat>>

CatExprLeaf == res = "None" /\ CatExprOf(LeafExprs)
CatExprBase == res # "None" /\ CatExprOf(BaseExprs)

ExprNext == CatExprLeaf \/ CatExprBase

ExprSpec == ExprInit /\ [][ExprNext]_vars

\* the expression categorized by the call recorded in arg
ArgExpr == Expr(arg.kind, arg.e, arg.def, arg.t)
\* the McResult of the helper of cat_expr under the first k adjustments
PrefixResult(k) ==
    helper(infcx, features, eid, ArgExpr, arg.prev, SubSeq(arg.adjustments, 1, k))

(***************************************************************************)
(* Properties of one call of cat_expr.                                     *)
(***************************************************************************)
\* the expression forms that categorize their sub-expression
UsesBase(kind, e) ==
    \/ kind \in {"ExprField", "ExprTupField", "ExprType"}
    \/ kind \in {"ExprIndex", "ExprUnaryDeref"} /\ ~e.method_call

\* C12 as stated: when the sub-expression, the unadjusted expression or any
\* adjustment step fails with Err, cat_expr returns Err, whatever the list
\* of adjustments.
C12_Original ==
    op = "cat_expr" =>
        ((arg.prev.r = "Err" \/ \E k \in 0..Len(arg.adjustments) : PrefixResult(k).r = "Err")
            => res = "Err")

\* C12: a soft failure propagates through the steps that use the place
\* below them.  A failed sub-expression makes a field, tuple field, type
\* ascription, built-in index or built-in deref expression fail, unless the
\* lookup of that expression's own type aborts; a failure under the first k
\* adjustments makes cat_expr return Err when every later adjustment is a
\* built-in deref.  A coercion or an overloaded deref adjustment returns Ok
\* whatever lies below it.
C12_FailurePropagation ==
    op = "cat_expr" =>
        /\ (arg.prev.r = "Err" /\ UsesBase(arg.kind, arg.e)
              /\ expr_ty(infcx, arg.e.ty).r # "Bug")
             => PrefixResult(0).r = "Err"
        /\ \A k \in 0..Len(arg.adjustments) :
              (PrefixResult(k).r = "Err"
                 /\ \A j \in (k + 1)..Len(arg.adjustments) : arg.adjustments[j].kind = "Deref")
                 => res = "Err"
        /\ \A k \in 1..Len(arg.adjustments) :
              arg.adjustments[k].kind # "Deref" => PrefixResult(k).r = "Ok"

\* a failed sub-expression under a field expression and two built-in derefs
C12_Witness ==
    /\ op = "cat_expr" /\ res = "Err" /\ cmt = <<>>
    /\ arg.prev.r = "Err" /\ arg.kind = "ExprField" /\ arg.e.ty = TyAdt
    /\ Len(arg.adjustments) = 2
    /\ \A j \in 1..2 : arg.adjustments[j].kind = "Deref"

\* the type recorded for the expression is an inference variable that
\* inference has not resolved
UnresolvedTyVar(icx, ty) ==
    ty # TyNone /\ (Sty(ty) = "TyInfer" \/ (Sty(ty) = "TyInferKnown" /\ icx = "None"))

\* C13 as stated: a missing type and an unresolved inference variable both
\* abort when no type error has been recorded.
C13_Original ==
    (op = "cat_expr" /\ arg.adjustments = <<>>) =>
        ((arg.e.ty = TyNone \/ UnresolvedTyVar(infcx, arg.e.ty)) /\ infcx # "Tainted"
            => res = "Bug")

\* C13: the lookup of the type of the categorized expression aborts only
\* for a missing entry in a context not tainted by errors; a missing entry
\* in a tainted context, a type that references the error type and an
\* unresolved inference variable (tainted or not) give Err; any other type
\* lets the categorization go on without a lookup failure of its own.
C13_TypeLookupFailure ==
    (op = "cat_expr" /\ arg.adjustments = <<>>) =>
        /\ (arg.e.ty = TyNone /\ infcx # "Tainted") => res = "Bug"
        /\ (arg.e.ty = TyNone /\ infcx = "Tainted") => res = "Err"
        /\ (arg.e.ty # TyNone /\ Sty(arg.e.ty) = "TyError") => res = "Err"
        /\ UnresolvedTyVar(infcx, arg.e.ty) => res = "Err"
        /\ (arg.kind = "ExprCall" /\ arg.e.ty # TyNone /\ Sty(arg.e.ty) # "TyError"
              /\ ~UnresolvedTyVar(infcx, arg.e.ty))
             => res = "Ok"

\* an unresolved inference variable in a context without type errors
C13_Witness ==
    /\ op = "cat_expr" /\ arg.adjustments = <<>>
    /\ arg.e.ty = TyInfer /\ infcx = "Clean" /\ res = "Err"

(***************************************************************************)
(* Properties of cat_upvar (UpvarSpec): the layers of the place.           *)
(***************************************************************************)
\* the kind of the closure cat_upvar was called for: the recorded one, or
\* FnOnce for a generator
ArgClosureKind == IF arg.t.closure_kind # "None" THEN arg.t.closure_kind ELSE "FnOnce"
\* the captured variable is declared `mut`
ArgDeclaredMutable == arg.t.bm = [by |-> "BindByValue", m |-> "MutMutable"]

\* C14: for an Fn closure the Upvar node is wrapped in a Deref through
\* BorrowedPtr(ImmBorrow, region of the closure environment), for an FnMut
\* closure through BorrowedPtr(MutBorrow, that region), and for FnOnce no
\* such layer exists; the layer has the note NoteClosureEnv, is McDeclared
\* for FnMut over a variable declared mutable and McImmutable otherwise.
C14_EnvLayer ==
    (op \in {"cat_upvar", "query"} /\ res = "Ok") =>
        /\ cmt[1].cat = "Upvar"
        /\ ArgClosureKind = "FnOnce" =>
              /\ \A i \in DOMAIN cmt : cmt[i].note # NoteClosureEnv(ArgUpvarId)
              /\ Len(cmt) = IF arg.t.capture = ByValue THEN 1 ELSE 2
        /\ ArgClosureKind \in {"Fn", "FnMut"} =>
              /\ Len(cmt) = IF arg.t.capture = ByValue THEN 2 ELSE 3
              /\ cmt[2].cat = "Deref"
              /\ cmt[2].ptr = BorrowedPtr(IF ArgClosureKind = "Fn" THEN "ImmBorrow" ELSE "MutBorrow",
                                          ReEnv(arg.def.fn_node_id))
              /\ cmt[2].note = NoteClosureEnv(ArgUpvarId)
              /\ cmt[2].mutbl = IF ArgClosureKind = "FnMut" /\ ArgDeclaredMutable
                                THEN "McDeclared" ELSE "McImmutable"
              /\ \A i \in DOMAIN cmt : i # 2 => cmt[i].note # NoteClosureEnv(ArgUpvarId)

\* an FnMut closure over a variable declared `mut`: the environment layer
\* is a mutable borrow and McDeclared
C14_Witness ==
    /\ op = "cat_upvar" /\ res = "Ok"
    /\ arg.t.closure_kind = "FnMut" /\ ArgDeclaredMutable
    /\ Len(cmt) >= 2 /\ cmt[2].note = NoteClosureEnv(ArgUpvarId)
    /\ cmt[2].ptr.k = "BorrowedPtr" /\ cmt[2].mutbl = "McDeclared"

\* C15 as stated: whatever the closure kind and the capture mode, the
\* Upvar node has the declared mutability and the type of the variable.
C15_Original ==
    (op \in {"cat_upvar", "query"} /\ res = "Ok") =>
        /\ cmt[1].cat = "Upvar"
        /\ cmt[1].mutbl = IF ArgDeclaredMutable THEN "McDeclared" ELSE "McImmutable"
        /\ cmt[1].ty = arg.t.var_ty

\* C15: the innermost node of a place returned by cat_upvar is its only
\* Upvar node.  For FnOnce it has the declared mutability and the type of
\* the variable; for Fn and FnMut the environment layer makes it
\* McImmutable with the error type, and the Deref above it carries the type
\* of the variable.
C15_UpvarNode ==
    (op \in {"cat_upvar", "query"} /\ res = "Ok") =>
        /\ cmt[1].cat = "Upvar"
        /\ \A i \in DOMAIN cmt : i > 1 => cmt[i].cat # "Upvar"
        /\ ArgClosureKind = "FnOnce" =>
              /\ cmt[1].mutbl = IF ArgDeclaredMutable THEN "McDeclared" ELSE "McImmutable"
              /\ cmt[1].ty = arg.t.var_ty
        /\ ArgClosureKind \in {"Fn", "FnMut"} =>
              /\ cmt[1].mutbl = "McImmutable"
              /\ cmt[1].ty = TyError
              /\ cmt[2].ty = arg.t.var_ty

\* a variable declared `mut` captured by reference by an Fn closure: its
\* Upvar node is McImmutable and has the error type
C15_Witness ==
    /\ op = "cat_upvar" /\ res = "Ok"
    /\ arg.t.closure_kind = "Fn" /\ arg.t.capture.by = "ByRef" /\ ArgDeclaredMutable
    /\ arg.t.var_ty = TyBox(TyAdt)
    /\ cmt[1].cat = "Upvar" /\ cmt[1].mutbl = "McImmutable" /\ cmt[1].ty = TyError

\* array types of a fixed length
FixedLength(ty) == Sty(ty) \in {"TyArray", "TyArray0"}

\* C16: a built-in index expression over a base that is not a fixed-length
\* array is categorized as Interior(Deref(base), InteriorElement(Index)); over
\* a fixed-length array it is Interior(base, InteriorElement(Index)) with no
\* Deref node.
C16_IndexDerefsBase ==
    (op = "cat_expr" /\ arg.kind = "ExprIndex" /\ ~arg.e.method_call
       /\ arg.adjustments = <<>> /\ arg.prev.r = "Ok" /\ res = "Ok") =>
        /\ Top(cmt).cat = "Interior" /\ Top(cmt).ik = InteriorElement("Index")
        /\ IF FixedLength(Top(arg.prev.cmt).ty)
           THEN Base(cmt) = arg.prev.cmt
           ELSE /\ Len(cmt) = Len(arg.prev.cmt) + 2
                /\ Top(Base(cmt)).cat = "Deref"
                /\ Base(Base(cmt)) = arg.prev.cmt

\* C17 as stated: a by-reference binding has the mutability the binding
\* declares, `ref mut` giving McDeclared.
C17_Original ==
    (op = "cat_expr" /\ arg.kind = "ExprPath" /\ arg.def.k = "Local"
       /\ arg.adjustments = <<>> /\ res = "Ok") =>
        /\ Top(cmt).cat = "Local"
        /\ Top(cmt).mutbl = IF arg.t.bm.m = "MutMutable" THEN "McDeclared" ELSE "McImmutable"

\* C17: a path to a local binding is the single node Local(binding) of the
\* type of the expression; it is McDeclared for a by-value binding declared
\* `mut` and McImmutable for any other binding, `ref` and `ref mut` alike.
C17_LocalMutability ==
    (op = "cat_expr" /\ arg.kind = "ExprPath" /\ arg.def.k = "Local"
       /\ arg.adjustments = <<>> /\ res = "Ok") =>
        /\ Len(cmt) = 1
        /\ cmt[1].cat = "Local" /\ cmt[1].n = arg.def.var_id
        /\ cmt[1].ty = resolve_type_vars_if_possible(infcx, arg.e.ty)
        /\ cmt[1].mutbl = IF arg.t.bm = [by |-> "BindByValue", m |-> "MutMutable"]
                          THEN "McDeclared" ELSE "McImmutable"

\* a path to a `ref mut` binding
C17_Witness ==
    /\ op = "cat_expr" /\ arg.kind = "ExprPath" /\ arg.def.k = "Local"
    /\ arg.adjustments = <<>> /\ res = "Ok"
    /\ arg.t.bm = [by |-> "BindByReference", m |-> "MutMutable"]
    /\ cmt[1].cat = "Local" /\ cmt[1].mutbl = "McImmutable"

\* C18: the last adjustment decides the shape of the place.  A coercion
\* other than a deref gives a single fresh Rvalue node of the target type
\* of the coercion; a built-in deref step that succeeds gives a Deref node
\* over the place of the adjustments before it; an overloaded deref gives a
\* Deref node over a fresh Rvalue of the type reference-to-target with the
\* region and mutability of the adjustment.
C18_AdjustmentStep ==
    (op = "cat_expr" /\ arg.adjustments # <<>>) =>
        LET n == Len(arg.adjustments)
            a == arg.adjustments[n]
            target == resolve_type_vars_if_possible(infcx, a.target)
            before == PrefixResult(n - 1)
        IN  /\ a.kind \in NonDerefAdjusts =>
                  /\ res = "Ok" /\ Len(cmt) = 1
                  /\ cmt[1].cat = "Rvalue" /\ cmt[1].ty = target /\ cmt[1].id = eid
            /\ a.kind = "Deref" =>
                  /\ res = "Ok" => (before.r = "Ok" /\ Top(cmt).cat = "Deref"
                                      /\ Base(cmt) = before.cmt)
                  /\ res # "Ok" => cmt = <<>>
            /\ a.kind = "OverloadedDeref" =>
                  /\ res = "Ok" /\ Len(cmt) = 2
                  /\ cmt[1].cat = "Rvalue" /\ cmt[1].id = eid
                  /\ cmt[1].ty = TyRef(a.region, a.mutbl, target)
                  /\ cmt[2].cat = "Deref" /\ cmt[2].ty = target

\* a borrow of a dereferenced local: the place of the deref is dropped for
\* an rvalue of the reference type
C18_Witness ==
    /\ op = "cat_expr" /\ res = "Ok" /\ Len(arg.adjustments) = 2
    /\ arg.kind = "ExprPath" /\ arg.def.k = "Local"
    /\ arg.adjustments[1].kind = "Deref" /\ arg.adjustments[2].kind = "Borrow"
    /\ PrefixResult(1).r = "Ok" /\ Len(PrefixResult(1).cmt) = 2
    /\ Len(cmt) = 1 /\ cmt[1].cat = "Rvalue"
    /\ cmt[1].ty = TyRef(ra, "MutImmutable", TyAdt)

\* the borrow kind of a reference of mutability m
BorrowKindOf(m) == IF m = "MutImmutable" THEN "ImmBorrow" ELSE "MutBorrow"

\* the call is a built-in deref expression over a categorized
\* sub-expression, its own type lookup succeeding
BuiltinDerefCall ==
    /\ op = "cat_expr" /\ arg.kind = "ExprUnaryDeref" /\ ~arg.e.method_call
    /\ arg.adjustments = <<>> /\ arg.prev.r = "Ok" /\ arg.e.ty = TyAdt

\* the call is an overloaded deref or index expression, the lookup of its
\* own type succeeding
OverloadedCall ==
    /\ op = "cat_expr" /\ arg.kind \in {"ExprUnaryDeref", "ExprIndex"} /\ arg.e.method_call
    /\ arg.adjustments = <<>> /\ arg.e.ty = TyAdt

\* C19: cat_deref takes the pointer kind from the type of the base place:
\* Unique for a Box, UnsafePtr(m) for a raw pointer of mutability m,
\* BorrowedPtr(bk, r) for a reference of region r (Implicit(bk, r) when the
\* implicit flag is set, as for an overloaded index); a base of any other
\* type gives Err and no place; the call never aborts.
C19_DerefPointerKind ==
    /\ BuiltinDerefCall =>
          LET base == arg.prev.cmt
              ty == Top(base).ty
          IN  /\ res # "Bug"
              /\ Sty(ty) \in {"TyAdtBox", "TyRawPtr", "TyRef"} =>
                    /\ res = "Ok" /\ Base(cmt) = base
                    /\ Top(cmt).cat = "Deref" /\ Top(cmt).ty = Tail(ty)
                    /\ Top(cmt).ptr =
                          CASE Sty(ty) = "TyAdtBox" -> Unique
                            [] Sty(ty) = "TyRawPtr" -> UnsafePtr(ty[1].m)
                            [] Sty(ty) = "TyRef" -> BorrowedPtr(BorrowKindOf(ty[1].m), ty[1].r)
              /\ Sty(ty) \notin {"TyAdtBox", "TyRawPtr", "TyRef"} =>
                    (res = "Err" /\ cmt = <<>>)
    /\ (OverloadedCall /\ arg.kind = "ExprIndex" /\ res = "Ok") =>
          LET ty == arg.e.base_ty_adjusted
          IN  Top(cmt).ptr = Implicit(BorrowKindOf(ty[1].m), ty[1].r)
    /\ (op = "cat_expr" /\ arg.adjustments # <<>>
          /\ arg.adjustments[Len(arg.adjustments)].kind = "Deref"
          /\ PrefixResult(Len(arg.adjustments) - 1).r = "Ok") => res \in {"Ok", "Err"}

\* the deref of a local of type &mut Box<S>
C19_Witness ==
    /\ BuiltinDerefCall /\ res = "Ok"
    /\ Top(arg.prev.cmt).ty = TyRefBox("MutMutable")
    /\ Top(cmt).ptr = BorrowedPtr("MutBorrow", ra)
    /\ Top(cmt).ty = TyBox(TyAdt)

\* C20: an overloaded deref or index expression is a Deref over a fresh
\* Rvalue of the type reference-to-the-expression's-type with the region
\* and mutability of the adjusted receiver type, through Implicit(bk, r) for
\* an index and BorrowedPtr(bk, r) for a deref; its mutability is that of
\* the receiver reference whatever the indexed place is; a receiver whose
\* adjusted type is not a reference aborts.
C20_OverloadedLvalue ==
    OverloadedCall =>
        LET ty == arg.e.base_ty_adjusted
        IN  /\ (ty # TyNone /\ Sty(ty) = "TyRef") =>
                  /\ res = "Ok" /\ Len(cmt) = 2
                  /\ cmt[1].cat = "Rvalue" /\ cmt[1].id = eid
                  /\ cmt[1].ty = TyRef(ty[1].r, ty[1].m, arg.e.ty)
                  /\ cmt[2].cat = "Deref" /\ cmt[2].ty = arg.e.ty
                  /\ cmt[2].ptr = IF arg.kind = "ExprIndex"
                                  THEN Implicit(BorrowKindOf(ty[1].m), ty[1].r)
                                  ELSE BorrowedPtr(BorrowKindOf(ty[1].m), ty[1].r)
                  /\ cmt[2].mutbl = IF ty[1].m = "MutImmutable" THEN "McImmutable"
                                    ELSE "McDeclared"
            /\ (ty # TyNone /\ Sty(ty) # "TyRef") => res = "Bug"

\* an index of a local declared `mut` through a shared reference to it
C20_Witness ==
    /\ OverloadedCall /\ arg.kind = "ExprIndex" /\ res = "Ok"
    /\ arg.prev.r = "Ok" /\ Top(arg.prev.cmt).cat = "Local"
    /\ Top(arg.prev.cmt).mutbl = "McDeclared"
    /\ arg.e.base_ty_adjusted = TyRef(rb, "MutImmutable", TyAdt)
    /\ Top(cmt).ptr = Implicit("ImmBorrow", rb) /\ Top(cmt).mutbl = "McImmutable"

(***************************************************************************)
(* RvalueSpec: temporary_scope and cat_rvalue_node on every combination of *)
(* the type of the rvalue, its entry in the promotable table, the feature  *)
(* flag and its entry in the scope map (0: no entry).                      *)
(***************************************************************************)
Scopes == 0..2
Promotables == {"None", "true", "false"}
RvalueTys == {TyAdt, TyInt, TyBox(TyAdt), TyRef(ra, "MutImmutable", TyAdt),
              TyArray(TyAdt), TyArray0(TyAdt)}

RvalueInit ==
    /\ cmt = <<>> /\ res = "None" /\ op = "new" /\ eid = 0
    /\ infcx = "None" /\ features \in BOOLEAN
    /\ arg = NoArg /\ out = NoOut /\ visits = <<>> /\ rootpat = NoPat

TemporaryScope ==
    /\ op = "new"
    /\ \E id \in 1..2, scope \in Scopes :
          /\ out' = [NoOut EXCEPT !.region = temporary_scope(scope)]
          /\ arg' = [NoArg EXCEPT !.e = [NoEntry EXCEPT !.scope = scope]]
          /\ eid' = id
    /\ op' = "temporary_scope"
    /\ UNCHANGED <<cmt, res, infcx, features, visits, rootpat>>

CatRvalueNode ==
    /\ op = "new"
    /\ \E id \in 1..2, ty \in RvalueTys, promotable \in Promotables, scope \in Scopes :
          /\ cmt' = cat_rvalue_node(id, ty, promotable, features, scope)
          /\ arg' = [NoArg EXCEPT !.e = [NoEntry EXCEPT !.ty = ty, !.promotable = promotable,
                                                        !.scope = scope]]
          /\ eid' = id
    /\ res' = "Ok" /\ op' = "cat_rvalue_node"
    /\ UNCHANGED <<infcx, features, out, visits, rootpat>>

RvalueNext == TemporaryScope \/ CatRvalueNode

RvalueSpec == RvalueInit /\ [][RvalueNext]_vars

\* C21: temporary_scope(id) is ReScope(s) when the scope map records the
\* temporary scope s for id, and the static region when it records none.
C21_TemporaryScope ==
    op = "temporary_scope" =>
        out.region = IF arg.e.scope # 0 THEN ReScope(arg.e.scope) ELSE ReStatic

\* a node without an entry in the scope map
C21_Witness ==
    op = "temporary_scope" /\ arg.e.scope = 0 /\ out.region = ReStatic

\* C22: cat_rvalue_node gives an rvalue of a zero-length array type the
\* static region always; an rvalue of another type has the static region by
\* promotion exactly when the promotable table marks its node true and the
\* feature is enabled, and the region temporary_scope(id) otherwise.
C22_RvaluePromotion ==
    op = "cat_rvalue_node" =>
        /\ Len(cmt) = 1 /\ cmt[1].cat = "Rvalue" /\ cmt[1].id = eid
        /\ cmt[1].ty = arg.e.ty
        /\ cmt[1].region =
              IF Sty(arg.e.ty) = "TyArray0" THEN ReStatic
              ELSE IF arg.e.promotable = "true" /\ features THEN ReStatic
              ELSE IF arg.e.scope # 0 THEN ReScope(arg.e.scope)
              ELSE ReStatic

\* an rvalue the table marks promotable, in a temporary scope, the feature
\* being disabled: it lives in its temporary scope
C22_Witness ==
    /\ op = "cat_rvalue_node" /\ ~features
    /\ arg.e.promotable = "true" /\ arg.e.scope = 2 /\ arg.e.ty = TyAdt
    /\ cmt[1].region = ReScope(2)

(***************************************************************************)
(* BlameSpec: the places the categorizer builds for paths, fields, tuple   *)
(* fields, indexing, dereferences and downcasts of a type-checked program, *)
(* and immutability_blame() asked of them.                                 *)
(***************************************************************************)
TyRefImm(t) == TyRef(ra, "MutImmutable", t)

BlameLocalTys ==
    {TyAdt, TyEnum, TyTuple, TyRefImm(TyAdt), TyRefImm(TyRefImm(TyAdt)),
     TyRef(ra, "MutMutable", TyRefImm(TyAdt)), TyRawPtr("MutImmutable", TyAdt),
     TyBox(TyRefImm(TyAdt)), TyArray(TyRefImm(TyAdt))}
BlameFieldTys == {TyAdt, TyRefImm(TyAdt)}
BlameUpvarTables ==
    {[NoTables EXCEPT !.closure_kind = ck, !.fn_ty = TyClosure, !.var_ty = ty, !.capture = c] :
        ck \in ClosureKinds, ty \in {TyAdt, TyRefImm(TyAdt)},
        c \in {ByValue, ByRef("ImmBorrow", rb), ByRef("MutBorrow", rb)}}

BlameInit ==
    /\ cmt = <<>> /\ res = "None" /\ op = "new" /\ eid = 0
    /\ infcx = "None" /\ features = FALSE
    /\ arg = NoArg /\ out = NoOut /\ visits = <<>> /\ rootpat = NoPat

BlameStep(place) ==
    /\ Len(place) <= MaxBlameDepth
    /\ cmt' = place /\ res' = "Ok" /\ op' = "place" /\ eid' = eid + 1
    /\ UNCHANGED <<infcx, features, arg, out, visits, rootpat>>

\* cat_def of a path to a local, a static item, a constant or an upvar
BlameDef ==
    /\ op = "new"
    /\ \/ \E ty \in BlameLocalTys, m \in Mutabilities : BlameStep(LocalOf(ty, m))
       \/ \E mutbl \in BOOLEAN :
             BlameStep(cat_def(infcx, features, 1, TyRefImm(TyAdt),
                               Def("Static", mutbl, 0, 0), NoEntry, NoTables).cmt)
       \/ BlameStep(cat_def(infcx, features, 1, TyRefImm(TyAdt), Def("Const", FALSE, 0, 0),
                            [NoEntry EXCEPT !.scope = 1], NoTables).cmt)
       \/ \E t \in BlameUpvarTables :
             BlameStep(cat_def(infcx, features, 1, t.var_ty, Def("Upvar", FALSE, 1, 5),
                               NoEntry, t).cmt)

\* a named field of a struct or of a variant the place was downcast to
BlameField ==
    /\ op = "place"
    /\ Sty(Top(cmt).ty) = "TyAdt" \/ Top(cmt).cat = "Downcast"
    /\ \E f_ty \in BlameFieldTys : BlameStep(cat_field(eid + 1, cmt, 1, f_ty))

\* a positional field of a tuple, a tuple struct or a variant
BlameTupField ==
    /\ op = "place"
    /\ Sty(Top(cmt).ty) \in {"TyTuple", "TyAdt"} \/ Top(cmt).cat = "Downcast"
    /\ \E f_ty \in BlameFieldTys : BlameStep(cat_tup_field(eid + 1, cmt, 0, f_ty))

BlameIndex ==
    /\ op = "place"
    /\ builtin_index(Top(cmt).ty)[1]
    /\ BlameStep(cat_index(eid + 1, cmt, builtin_index(Top(cmt).ty)[2], "Index").cmt)

BlameDeref ==
    /\ op = "place"
    /\ \E implicit \in BOOLEAN :
          LET r == cat_deref(eid + 1, cmt, implicit)
          IN  r.r = "Ok" /\ BlameStep(r.cmt)

\* the downcast a pattern naming a variant of the enum makes
BlameDowncast ==
    /\ op = "place"
    /\ Sty(Top(cmt).ty) = "TyAdtEnum" /\ Top(cmt).cat # "Downcast"
    /\ \E v \in adt_variants(1) : BlameStep(cat_downcast_if_needed(eid + 1, cmt, v))

ImmutabilityBlame ==
    /\ op = "place"
    /\ out' = [NoOut EXCEPT !.blame = immutability_blame(cmt)]
    /\ op' = "blame"
    /\ UNCHANGED <<cmt, res, eid, infcx, features, arg, visits, rootpat>>

BlameNext ==
    \/ BlameDef \/ BlameField \/ BlameTupField \/ BlameIndex \/ BlameDeref \/ BlameDowncast
    \/ ImmutabilityBlame

BlameSpec == BlameInit /\ [][BlameNext]_vars

\* the node is a dereference through an immutable borrow
ImmBorrowDeref(c) ==
    c.cat = "Deref" /\ c.ptr.k \in {"BorrowedPtr", "Implicit"} /\ c.ptr.bk = "ImmBorrow"
\* the node is an access to a named or positional field
FieldInterior(c) == c.cat = "Interior" /\ c.ik.k = "InteriorField"

\* C23: immutability_blame() of a dereference through an immutable borrow
\* blames the base: LocalDeref(v) over Local(v); the field definition over
\* a field access (none for the field of a tuple); ClosureEnv(closure)
\* over an Upvar when the dereference has the note NoteClosureEnv.  A place
\* that is Local(v) gives ImmLocal(v); a StaticItem, an Rvalue, an Upvar and
\* a dereference of a raw pointer give no blame.
C23_Blame ==
    op = "blame" =>
        LET c == Top(cmt)
        IN  /\ out.blame # BlameBug
            /\ (ImmBorrowDeref(c) /\ Top(Base(cmt)).cat = "Local") =>
                  out.blame = LocalDeref(Top(Base(cmt)).n)
            /\ (ImmBorrowDeref(c) /\ FieldInterior(Top(Base(cmt)))) =>
                  LET owner == Top(Base(Base(cmt)))
                  IN  IF Sty(owner.ty) = "TyTuple" THEN out.blame = NoBlame
                      ELSE /\ out.blame.k = "AdtFieldDeref"
                           /\ out.blame.field = Top(Base(cmt)).ik
                           /\ out.blame.adt = IF Sty(owner.ty) = "TyAdtEnum" THEN 1 ELSE 3
                           /\ out.blame.variant = IF owner.cat = "Downcast" THEN owner.n ELSE 30
            /\ (ImmBorrowDeref(c) /\ Top(Base(cmt)).cat = "Upvar"
                  /\ c.note.k = "NoteClosureEnv") =>
                  out.blame = ClosureEnv(Top(Base(cmt)).upvar.id.closure_expr_id)
            /\ c.cat = "Local" => out.blame = ImmLocal(c.n)
            /\ (c.cat \in {"StaticItem", "Rvalue", "Upvar"}
                  \/ (c.cat = "Deref" /\ c.ptr.k = "UnsafePtr")) => out.blame = NoBlame

\* the dereference of a field of type &S of the second variant of an enum
C23_Witness ==
    /\ op = "blame" /\ Len(cmt) = 4
    /\ cmt[1].cat = "Local" /\ cmt[2].cat = "Downcast" /\ cmt[2].n = 12
    /\ cmt[3].cat = "Interior" /\ cmt[3].ik = NamedField(1)
    /\ ImmBorrowDeref(cmt[4])
    /\ out.blame = AdtFieldDeref(1, 12, NamedField(1))

\* the base of a dereference through an immutable borrow is one that the
\* blame is taken from
BlamedBase(p) ==
    LET b == Top(Base(p))
    IN  \/ b.cat = "Local"
        \/ FieldInterior(b)
        \/ (b.cat = "Upvar" /\ Top(p).note.k = "NoteClosureEnv")

\* C26: immutability_blame() does not look below a dereference through an
\* immutable borrow: when its base is not a Local, a field access or an
\* Upvar under a NoteClosureEnv dereference, the blame is None whatever
\* the blame of the base is.  Through an Interior, a Downcast and any other
\* Deref except one of a raw pointer the blame is that of the base.
C26_BlameStopsAtImmBorrow ==
    op = "blame" =>
        LET c == Top(cmt)
        IN  /\ (ImmBorrowDeref(c) /\ ~BlamedBase(cmt)) => out.blame = NoBlame
            /\ (c.cat \in {"Interior", "Downcast"}
                  \/ (c.cat = "Deref" /\ ~ImmBorrowDeref(c) /\ c.ptr.k # "UnsafePtr")) =>
                  out.blame = immutability_blame(Base(cmt))

\* *r for r: & &S held in a local: the inner dereference has the blame
\* LocalDeref, the outer one has none
C26_Witness ==
    /\ op = "blame" /\ Len(cmt) = 3
    /\ cmt[1].cat = "Local" /\ ImmBorrowDeref(cmt[2]) /\ ImmBorrowDeref(cmt[3])
    /\ immutability_blame(Base(cmt)) = LocalDeref(cmt[1].n)
    /\ out.blame = NoBlame

\* C24: when the tables record no kind for the closure, cat_upvar treats a
\* closure node of generator type as an FnOnce closure (no environment
\* dereference) and aborts for a closure node of any other type.
C24_MissingClosureKind ==
    (op \in {"cat_upvar", "query"} /\ arg.t.closure_kind = "None") =>
        /\ arg.t.fn_ty = TyGenerator =>
              LET asFnOnce == cat_upvar(infcx, 1, arg.def.var_id, arg.def.fn_node_id,
                                        [arg.t EXCEPT !.closure_kind = "FnOnce"])
              IN  /\ res = asFnOnce.r /\ cmt = asFnOnce.cmt
                  /\ res = "Ok" =>
                        /\ cmt[1].cat = "Upvar" /\ cmt[1].upvar.kind = "FnOnce"
                        /\ \A i \in DOMAIN cmt : cmt[i].note.k # "NoteClosureEnv"
        /\ arg.t.fn_ty = TyClosure => res = "Bug"

\* a closure without a recorded kind whose node has a closure type
C24_Witness ==
    /\ op = "cat_upvar" /\ arg.t.closure_kind = "None" /\ arg.t.fn_ty = TyClosure
    /\ arg.t.var_ty = TyAdt /\ res = "Bug" /\ cmt = <<>>

(***************************************************************************)
(* Properties of cat_pattern (PatSpec): the visits made before a failure.  *)
(***************************************************************************)
\* the node of the pattern with the given id
NodeOf(id) == CHOOSE q \in PatNodes(rootpat) : q.id = id
VisitIds == [k \in DOMAIN visits |-> visits[k].pat]

\* the node q, visited with its place, fails by itself: its definition is
\* the error sentinel, it is a slice pattern on a place that cannot be
\* indexed, a box or reference pattern on a place that cannot be
\* dereferenced, or the lookup of its own type fails
OwnFailure(q) ==
    LET ty == Top(PlaceOf(q.id)).ty
    IN  \/ q.node \in {"TupleStruct", "Struct"} /\ q.def.k = "Err"
        \/ q.node = "Slice" /\ Sty(ty) \notin {"TyArray", "TyArray0", "TySlice"}
        \/ q.node \in {"Box", "Ref"} /\ Sty(ty) \notin {"TyAdtBox", "TyRef", "TyRawPtr"}
        \/ (q.node = "Tuple" \/ (q.node = "TupleStruct" /\ q.def.k = "StructCtor"))
              /\ pat_ty(infcx, q).r = "Err"

\* n is a sub-pattern of a tuple-struct, struct or tuple pattern, and the
\* lookup of its type fails
SubLookupFailure(n) ==
    /\ \E q \in PatNodes(rootpat) :
          /\ q.node \in {"TupleStruct", "Struct", "Tuple"}
          /\ \E k \in DOMAIN q.subs : q.subs[k].id = n.id
    /\ pat_ty(infcx, n).r = "Err"

\* C25 as stated: when cat_pattern returns Err the visitor has been called
\* for the failing node, for every node before it in pre-order and for no
\* node after it; the failing node is the node that fails by itself, the
\* sub-pattern whose type lookup fails, or the parent of that sub-pattern.
C25_Original ==
    (op = "cat_pattern" /\ res = "Err") =>
        /\ visits # <<>>
        /\ IsPrefix(VisitIds, PreOrder(rootpat))
        /\ LET last == NodeOf(visits[Len(visits)].pat)
           IN  \/ OwnFailure(last)
               \/ SubLookupFailure(last)
               \/ \E k \in DOMAIN last.subs : SubLookupFailure(last.subs[k])

\* C25: when cat_pattern returns Err the visitor has been called for the
\* nodes of a prefix of the pre-order of the pattern, the root included, and
\* for no other node.  The last node visited is the node that fails by
\* itself; or else the next node in pre-order is a sub-pattern whose type
\* lookup fails, and that sub-pattern is not visited.
C25_VisitsBeforeFailure ==
    (op = "cat_pattern" /\ res = "Err") =>
        LET pre == PreOrder(rootpat)
            n == Len(visits)
        IN  /\ n >= 1
            /\ IsPrefix(VisitIds, pre)
            /\ visits[1].cmt = cmt
            /\ \/ OwnFailure(NodeOf(visits[n].pat))
               \/ /\ n < Len(pre)
                  /\ SubLookupFailure(NodeOf(pre[n + 1]))
                  /\ ~Visited(pre[n + 1])

\* the second field of a variant pattern has no usable type: the pattern,
\* and the first field are visited, the second field is not
C25_Witness ==
    /\ op = "cat_pattern" /\ res = "Err"
    /\ rootpat.node = "TupleStruct" /\ Len(rootpat.subs) = 2
    /\ rootpat.subs[1].node = "Wild"
    /\ pat_ty(infcx, rootpat.subs[2]).r = "Err"
    /\ VisitIds = <<rootpat.id, rootpat.subs[1].id>>

\* C27: on every place returned by cat_upvar, for each closure kind and each
\* capture mode, upvar() reaches no bug!() branch; it returns None exactly
\* when the closure is FnOnce and the variable is captured by value, where
\* the place is the bare Upvar node with note NoteNone; otherwise it returns
\* Some(place), the place being the Upvar node the result is rooted in.
C27_UpvarOfCatUpvar ==
    (op = "query") =>
        /\ out.upvar # UpvarBug
        /\ out.upvar = None <=> (ArgClosureKind = "FnOnce" /\ arg.t.capture = ByValue)
        /\ out.upvar = None => (Len(cmt) = 1 /\ cmt[1].note = NoteNone)
        /\ out.upvar # None =>
              /\ out.upvar.r = "Some"
              /\ out.upvar.cmt = <<cmt[1]>>
              /\ Top(out.upvar.cmt).cat = "Upvar"

\* an FnMut closure capturing by reference: two dereferences over the Upvar
C27_Witness ==
    /\ op = "query" /\ arg.t.closure_kind = "FnMut" /\ arg.t.capture.by = "ByRef"
    /\ Len(cmt) = 3 /\ out.upvar = Some(<<cmt[1]>>) /\ cmt[1].cat = "Upvar"

\* C28: every Rvalue node of a place the engine builds has mutability
\* McDeclared and note NoteNone, so every field, element, downcast or Box
\* dereference projected from an rvalue has mutability McInherited.
C28_RvalueDeclared ==
    \A p \in Places : \A i \in DOMAIN p :
        p[i].cat = "Rvalue" =>
            /\ i = 1
            /\ p[i].mutbl = "McDeclared" /\ p[i].note = NoteNone
            /\ \A j \in DOMAIN p : InheritingSteps(p, i, j) => p[j].mutbl = "McInherited"

\* a field of a Box dereference of a temporary
C28_Witness ==
    \E p \in Places :
        /\ Len(p) >= 3 /\ p[1].cat = "Rvalue"
        /\ p[2].cat = "Deref" /\ p[2].ptr.k = "Unique" /\ p[2].mutbl = "McInherited"
        /\ p[3].cat = "Interior" /\ p[3].mutbl = "McInherited"

\* the node is a dereference of a mutable borrow or of a mutable raw pointer
MutablePointerDeref(n) ==
    /\ n.cat = "Deref"
    /\ \/ n.ptr.k \in {"BorrowedPtr", "Implicit"} /\ n.ptr.bk = "MutBorrow"
       \/ n.ptr.k = "UnsafePtr" /\ n.ptr.m = "MutMutable"

\* C29: in every place the engine produces, a node whose category is
\* Interior, Downcast or Deref through a Unique pointer never has mutability
\* McDeclared; McDeclared occurs only on Local, StaticItem, Rvalue and Upvar
\* nodes and on Deref nodes through a mutable borrow or a mutable raw pointer.
C29_DeclaredOnlyAtRoots ==
    \A p \in Places : \A i \in DOMAIN p :
        /\ Inheriting(p[i]) => p[i].mutbl \in {"McInherited", "McImmutable"}
        /\ p[i].mutbl = "McDeclared" =>
              \/ p[i].cat \in {"Local", "StaticItem", "Rvalue", "Upvar"}
              \/ MutablePointerDeref(p[i])

\* a projection of a dereference of a mutable borrow held in a `mut` local
C29_Witness ==
    \E p \in Places :
        /\ Len(p) >= 3
        /\ p[1].cat = "Local" /\ p[1].mutbl = "McDeclared"
        /\ MutablePointerDeref(p[2]) /\ p[2].mutbl = "McDeclared"
        /\ Inheriting(p[3]) /\ p[3].mutbl = "McInherited"

AliasableReasons == {"AliasableBorrowed", "AliasableStatic", "AliasableStaticMut"}

\* the node at which freely_aliasable answers without looking at its base
AliasabilityTerminal(n) ==
    \/ n.cat \in {"Rvalue", "Local", "Upvar", "StaticItem"}
    \/ n.cat = "Deref" /\ n.ptr.k = "UnsafePtr"
    \/ n.cat = "Deref" /\ n.ptr.k \in {"BorrowedPtr", "Implicit"} /\ n.ptr.bk = "ImmBorrow"

\* C30: freely_aliasable() never returns ImmutableUnique: for every place its
\* result is NonAliasable or FreelyAliasable(r) with r one of
\* AliasableBorrowed, AliasableStatic and AliasableStaticMut; the recursion
\* ends at a node of the place, after at most as many steps as the place has
\* nodes, with the answer that node gives.
C30_NoImmutableUnique ==
    (op = "query") =>
        /\ out.aliasable # ImmutableUnique
        /\ out.aliasable.k \in {"NonAliasable", "FreelyAliasable"}
        /\ out.aliasable.k = "NonAliasable" => out.aliasable = NonAliasable
        /\ out.aliasable.k = "FreelyAliasable" =>
              \E r \in AliasableReasons : out.aliasable = FreelyAliasable(r)
        /\ \E k \in DOMAIN cmt :
              /\ AliasabilityTerminal(cmt[k])
              /\ \A j \in (k + 1)..Len(cmt) : ~AliasabilityTerminal(cmt[j])
              /\ out.aliasable = freely_aliasable(SubSeq(cmt, 1, k))

\* a field reached through a unique immutable borrow of a mutable static
C30_Witness ==
    /\ op = "query" /\ Len(cmt) = 3
    /\ cmt[1].cat = "StaticItem"
    /\ cmt[2].cat = "Deref" /\ cmt[2].ptr.k = "BorrowedPtr" /\ cmt[2].ptr.bk = "UniqueImmBorrow"
    /\ cmt[3].cat = "Interior"
    /\ out.aliasable = FreelyAliasable("AliasableStaticMut")

====
